---- MODULE Spec2Model ----
(***************************************************************************)
(* A model of go-switchbot's polymorphic value codec (DeviceVersion,       *)
(* BrightnessState), of its command constructors (SetPosition,             *)
(* CreateKeyCommand), of its service methods and the response envelope     *)
(* they read, and of its webhook parser (ParseWebhookRequest).             *)
(*                                                                         *)
(* Text is a sequence of one-character strings, so that formatting         *)
(* (strconv.Itoa) and parsing (json.Unmarshal into an int) are computed    *)
(* digit by digit and a round trip is something TLC can refute.            *)
(***************************************************************************)
EXTENDS Integers, Sequences, FiniteSets, TLC

VARIABLES
    recv,        \* the type of the value under test: which `var x T` was declared
    b,           \* the raw JSON handed to the last UnmarshalJSON call
    is,          \* the DeviceVersion under test
    brightness,  \* the BrightnessState under test
    decoded,     \* the UnmarshalJSON calls made on brightness, each by its outcome
    ret,         \* what the last codec call returned
    call,        \* the last command constructor call and what it returned
    rpc,         \* the last service method call: its response and what it returned
    req          \* the webhook *http.Request being parsed, and the parse's progress

vars == <<recv, b, is, brightness, decoded, ret, call, rpc, req>>

----------------------------------------------------------------------------
(* Bounds *)

\* The longest run of digits in an integer literal on the wire.
MaxDigits == 2

\* How many times UnmarshalJSON is called on one BrightnessState.
MaxDecodes == 2

----------------------------------------------------------------------------
(* Text, strconv and encoding/json *)

Nil == "nil"

Digit == <<"0", "1", "2", "3", "4", "5", "6", "7", "8", "9">>

DigitChars == {Digit[i] : i \in 1..10}

DigitVal(c) == CHOOSE d \in 0..9 : Digit[d + 1] = c

RECURSIVE FormatUint(_)
FormatUint(n) ==
    IF n < 10 THEN <<Digit[n + 1]>>
    ELSE Append(FormatUint(n \div 10), Digit[(n % 10) + 1])

\* strconv.Itoa with the sign dropped.
ItoaUnsigned(i) == IF i < 0 THEN FormatUint(0 - i) ELSE FormatUint(i)

\* strconv.Itoa: base 10, a leading "-" for a negative value, no leading zeros.
Itoa(i) == IF i < 0 THEN <<"-">> \o FormatUint(0 - i) ELSE FormatUint(i)

AllDigits(s) == Len(s) > 0 /\ \A i \in 1..Len(s) : s[i] \in DigitChars

\* The texts strconv.ParseInt accepts among JSON number literals.
IsIntText(s) ==
    IF s # <<>> /\ s[1] = "-" THEN AllDigits(Tail(s)) ELSE AllDigits(s)

RECURSIVE ParseUint(_)
ParseUint(s) ==
    IF s = <<>> THEN 0
    ELSE 10 * ParseUint(SubSeq(s, 1, Len(s) - 1)) + DigitVal(s[Len(s)])

ParseInt(s) == IF s[1] = "-" THEN 0 - ParseUint(Tail(s)) ELSE ParseUint(s)

\* A JSON value: its kind and, for a number, the literal's text; for a string,
\* the string's content.
JSON(kind, text) == [kind |-> kind, text |-> text]

\* json.Unmarshal(b, &iv) for iv of type int: null is a no-op without an
\* error, a number literal is handed to strconv.ParseInt, anything else is an
\* UnmarshalTypeError.
JsonUnmarshalInt(v, iv) ==
    CASE v.kind = "null" -> [ok |-> TRUE, val |-> iv]
      [] v.kind = "number" /\ IsIntText(v.text) -> [ok |-> TRUE, val |-> ParseInt(v.text)]
      [] OTHER -> [ok |-> FALSE, val |-> iv]

\* json.Unmarshal(b, &sv) for sv of type string.
JsonUnmarshalString(v, sv) ==
    CASE v.kind = "null" -> [ok |-> TRUE, val |-> sv]
      [] v.kind = "string" -> [ok |-> TRUE, val |-> v.text]
      [] OTHER -> [ok |-> FALSE, val |-> sv]

ErrUnmarshalType == "json: cannot unmarshal value into Go value of type string"

----------------------------------------------------------------------------
(* DeviceVersion *)

\* DeviceVersion.UnmarshalJSON with the integer returned as decoded by a
\* formatter that loses the sign.
DeviceVersion_UnmarshalJSON_NoSign(cur, v) ==
    LET i == JsonUnmarshalInt(v, 0) IN
    IF ~i.ok THEN
        LET s == JsonUnmarshalString(v, <<>>) IN
        IF ~s.ok THEN [is |-> cur, err |-> ErrUnmarshalType]
        ELSE [is |-> s.val, err |-> Nil]
    ELSE [is |-> ItoaUnsigned(i.val), err |-> Nil]

\* func (is *DeviceVersion) UnmarshalJSON(b []byte) error
DeviceVersion_UnmarshalJSON(cur, v) ==
    LET i == JsonUnmarshalInt(v, 0) IN
    IF ~i.ok THEN
        LET s == JsonUnmarshalString(v, <<>>) IN
        IF ~s.ok THEN [is |-> cur, err |-> ErrUnmarshalType]
        ELSE [is |-> s.val, err |-> Nil]
    ELSE [is |-> Itoa(i.val), err |-> Nil]

----------------------------------------------------------------------------
(* BrightnessState *)

ErrBothIntAndString == "cannot unmarshal to both of int and string"

ErrIntBrightness == "integer brightness value is only available for color bulb devices"

ErrAmbientBrightness ==
    "ambient brightness value is only available for motion sensor, contact sensor devices"

\* The zero value of the struct: what `var x BrightnessState` and an absent
\* "brightness" key of a status body give.
ZeroBrightnessState == [intBrightness |-> 0, ambientBrightness |-> <<>>]

\* BrightnessState.UnmarshalJSON without "set invalid value first".
BrightnessState_UnmarshalJSON_NoInvalidFirst(cur, v) ==
    LET i == JsonUnmarshalInt(v, 0) IN
    IF ~i.ok THEN
        LET s == JsonUnmarshalString(v, <<>>) IN
        IF ~s.ok THEN [brightness |-> cur, err |-> ErrBothIntAndString]
        ELSE [brightness |-> [cur EXCEPT !.ambientBrightness = s.val], err |-> Nil]
    ELSE [brightness |-> [cur EXCEPT !.intBrightness = i.val], err |-> Nil]

\* func (brightness *BrightnessState) UnmarshalJSON(b []byte) error
BrightnessState_UnmarshalJSON(cur, v) ==
    LET first == [cur EXCEPT !.intBrightness = 0 - 1]
        i == JsonUnmarshalInt(v, 0)
    IN
    IF ~i.ok THEN
        LET s == JsonUnmarshalString(v, <<>>) IN
        IF ~s.ok THEN [brightness |-> first, err |-> ErrBothIntAndString]
        ELSE [brightness |-> [first EXCEPT !.ambientBrightness = s.val], err |-> Nil]
    ELSE [brightness |-> [first EXCEPT !.intBrightness = i.val], err |-> Nil]

\* BrightnessState.Int taking 0 for the invalid value as well.
BrightnessState_Int_ZeroInvalid(cur) ==
    IF cur.intBrightness <= 0 THEN [val |-> 0 - 1, err |-> ErrIntBrightness]
    ELSE [val |-> cur.intBrightness, err |-> Nil]

\* func (brightness BrightnessState) Int() (int, error)
BrightnessState_Int(cur) ==
    IF cur.intBrightness < 0 THEN [val |-> 0 - 1, err |-> ErrIntBrightness]
    ELSE [val |-> cur.intBrightness, err |-> Nil]

\* BrightnessState.AmbientBrightness returning the known tokens only.
BrightnessState_AmbientBrightness_KnownOnly(cur) ==
    IF cur.ambientBrightness \in {<<"b", "r", "i", "g", "h", "t">>, <<"d", "i", "m">>}
    THEN [val |-> cur.ambientBrightness, err |-> Nil]
    ELSE [val |-> <<>>, err |-> ErrAmbientBrightness]

\* func (brightness BrightnessState) AmbientBrightness() (AmbientBrightness, error)
BrightnessState_AmbientBrightness(cur) ==
    IF cur.ambientBrightness # <<>> THEN [val |-> cur.ambientBrightness, err |-> Nil]
    ELSE [val |-> <<>>, err |-> ErrAmbientBrightness]

----------------------------------------------------------------------------
(* The JSON values put on the wire *)

\* The digits integer literals are written with.
WireDigits == {"0", "1", "2"}

TextsUpTo(S, n) == UNION {[1..k -> S] : k \in 1..n}

\* The ends of the documented brightness range 1..100 and its neighbour.
RangeEndLiterals == {<<"1", "0", "0">>, <<"1", "0", "1">>}

\* JSON's integer grammar: -?(0|[1-9][0-9]*)
NaturalLiterals ==
    {s \in TextsUpTo(WireDigits, MaxDigits) : Len(s) = 1 \/ s[1] # "0"}
        \cup RangeEndLiterals

IntLiterals == NaturalLiterals \cup {<<"-">> \o s : s \in NaturalLiterals}

\* Numbers that are no integers: a fraction and an exponent.
FractionLiterals == {<<"1", ".", "5">>, <<"1", "e", "2">>}

AmbientBrightnessBright == <<"b", "r", "i", "g", "h", "t">>

AmbientBrightnessDim == <<"d", "i", "m">>

WireStrings ==
    {<<>>, AmbientBrightnessBright, AmbientBrightnessDim, <<"1", "2">>, <<"o", "n">>}

WireValues ==
    {JSON("number", s) : s \in IntLiterals \cup FractionLiterals}
        \cup {JSON("string", s) : s \in WireStrings}
        \cup {JSON(k, <<>>) : k \in {"null", "true", "false", "object", "array"}}

\* A status body either has no "brightness" key or has one with a value.
Absent == JSON("absent", <<>>)

StatusBodies == {[brightness |-> v] : v \in WireValues \cup {Absent}}

\* What an UnmarshalJSON call was given, as far as the accessors can tell it
\* apart: a failed call, or the shape of the value decoded.
Decoded(v, err) ==
    CASE err # Nil -> "failed"
      [] v.kind = "number" -> IF ParseInt(v.text) < 0 THEN "negint" ELSE "int"
      [] v.kind = "string" -> IF v.text = <<>> THEN "emptystring" ELSE "string"
      [] OTHER -> v.kind

----------------------------------------------------------------------------
(* The codec: a value is declared, JSON is decoded into it, it is read *)

NoInput == JSON("none", <<>>)

NoRet == [op |-> "none", intVal |-> 0, strVal |-> <<>>, err |-> Nil]

NoCall == [fn |-> "none"]

NoRPC == [method |-> "none"]

NoRequest == [pc |-> "none"]

Declared(type) ==
    /\ recv' = type
    /\ b' = NoInput
    /\ is' = <<>>
    /\ brightness' = ZeroBrightnessState
    /\ decoded' = <<>>
    /\ ret' = NoRet
    /\ UNCHANGED <<call, rpc, req>>

Init ==
    /\ recv \in {"DeviceVersion", "BrightnessState"}
    /\ b = NoInput
    /\ is = <<>>
    /\ brightness = ZeroBrightnessState
    /\ decoded = <<>>
    /\ ret = NoRet
    /\ call = NoCall
    /\ rpc = NoRPC
    /\ req = NoRequest

\* var is DeviceVersion
NewDeviceVersion == Declared("DeviceVersion")

\* var brightness BrightnessState
NewBrightnessState == Declared("BrightnessState")

\* is.UnmarshalJSON(b)
DecodeVersion(v) ==
    /\ recv = "DeviceVersion"
    /\ LET r == DeviceVersion_UnmarshalJSON(is, v) IN
        /\ is' = r.is
        /\ ret' = [NoRet EXCEPT !.op = "DeviceVersion.UnmarshalJSON", !.err = r.err]
    /\ b' = v
    /\ UNCHANGED <<recv, brightness, decoded, call, rpc, req>>

\* brightness.UnmarshalJSON(b)
DecodeBrightness(v) ==
    /\ recv \in {"BrightnessState", "DeviceStatus"}
    /\ Len(decoded) < MaxDecodes
    /\ LET r == BrightnessState_UnmarshalJSON(brightness, v) IN
        /\ brightness' = r.brightness
        /\ decoded' = Append(decoded, Decoded(v, r.err))
        /\ ret' = [NoRet EXCEPT !.op = "BrightnessState.UnmarshalJSON", !.err = r.err]
    /\ b' = v
    /\ UNCHANGED <<recv, is, call, rpc, req>>

\* The Brightness field of the DeviceStatus that DeviceService.Status returns
\* for a response with statusCode 100 and the given body: the field of a fresh
\* struct, decoded when the body has the key; DeviceStatus{} when decoding
\* fails.
DeviceStatus_Brightness(body) ==
    IF body.brightness = Absent THEN [brightness |-> ZeroBrightnessState, err |-> Nil]
    ELSE LET r == BrightnessState_UnmarshalJSON(ZeroBrightnessState, body.brightness) IN
         IF r.err # Nil THEN [brightness |-> ZeroBrightnessState, err |-> r.err]
         ELSE r

\* status, err := svc.Status(ctx, id)
DecodeDeviceStatus(body) ==
    /\ LET r == DeviceStatus_Brightness(body) IN
        /\ brightness' = r.brightness
        /\ decoded' = IF body.brightness = Absent \/ r.err # Nil THEN <<>>
                      ELSE <<Decoded(body.brightness, r.err)>>
        /\ ret' = [NoRet EXCEPT !.op = "DeviceService.Status", !.err = r.err]
    /\ recv' = "DeviceStatus"
    /\ b' = body.brightness
    /\ is' = <<>>
    /\ UNCHANGED <<call, rpc, req>>

\* brightness.Int()
CallInt ==
    /\ recv \in {"BrightnessState", "DeviceStatus"}
    /\ LET r == BrightnessState_Int(brightness) IN
        ret' = [NoRet EXCEPT !.op = "Int", !.intVal = r.val, !.err = r.err]
    /\ UNCHANGED <<recv, b, is, brightness, decoded, call, rpc, req>>

\* brightness.AmbientBrightness()
CallAmbientBrightness ==
    /\ recv \in {"BrightnessState", "DeviceStatus"}
    /\ LET r == BrightnessState_AmbientBrightness(brightness) IN
        ret' = [NoRet EXCEPT !.op = "AmbientBrightness", !.strVal = r.val, !.err = r.err]
    /\ UNCHANGED <<recv, b, is, brightness, decoded, call, rpc, req>>

Next ==
    \/ NewDeviceVersion
    \/ NewBrightnessState
    \/ \E v \in WireValues : DecodeVersion(v)
    \/ \E v \in WireValues : DecodeBrightness(v)
    \/ \E body \in StatusBodies : DecodeDeviceStatus(body)
    \/ CallInt
    \/ CallAmbientBrightness

Spec == Init /\ [][Next]_vars

----------------------------------------------------------------------------
(* Command constructors *)

DefaultMode == 0

PerformanceMode == 1

SilentMode == 2

DeviceCommandRequest(command, parameter, commandType) ==
    [Command |-> command, Parameter |-> parameter, CommandType |-> commandType]

\* The mode component rendering every declared mode as its number.
ModeText_DefaultAsNumber(mode) ==
    IF mode \in {DefaultMode, PerformanceMode, SilentMode} THEN Itoa(mode) ELSE <<"f", "f">>

\* The mode component of setPosition's parameter.
ModeText(mode) ==
    IF mode \in {PerformanceMode, SilentMode} THEN Itoa(mode) ELSE <<"f", "f">>

\* SetPosition without the clamp from above.
SetPosition_NoUpperClamp(index, mode, position) ==
    LET clamped == IF position < 0 THEN 0 ELSE position IN
    DeviceCommandRequest("setPosition",
        Itoa(index) \o <<",">> \o ModeText(mode) \o <<",">> \o Itoa(clamped),
        "command")

\* func SetPosition(index int, mode SetPositionMode, position int) Command,
\* and the Request() of what it returns.
SetPosition(index, mode, position) ==
    LET clamped == IF position < 0 THEN 0
                   ELSE IF 100 < position THEN 100
                   ELSE position
    IN
    DeviceCommandRequest("setPosition",
        Itoa(index) \o <<",">> \o ModeText(mode) \o <<",">> \o Itoa(clamped),
        "command")

\* The earlier SetPosition: it clamps and keeps the arguments in a
\* setPositionCommand.
SetPosition_setPositionCommand(index, mode, position) ==
    [index |-> index,
     mode |-> mode,
     position |-> IF position < 0 THEN 0
                  ELSE IF 100 < position THEN 100
                  ELSE position]

\* func (cmd *setPositionCommand) request() deviceCommandRequest
setPositionCommand_request(cmd) ==
    DeviceCommandRequest("setPosition",
        Itoa(cmd.index) \o <<",">> \o ModeText(cmd.mode) \o <<",">> \o Itoa(cmd.position),
        "command")

PermanentPasscode == "permanent"

TimeLimitPasscode == "timeLimit"

DisposablePasscode == "disposable"

UrgentPasscode == "urgent"

\* The bytes of a character's UTF-8 encoding: an ASCII digit takes one, the
\* two named code points two and three.
Utf8Len(c) ==
    CASE c = "U+00E9" -> 2
      [] c = "U+9375" -> 3
      [] OTHER -> 1

\* len(s) of a Go string: its length in bytes.
RECURSIVE len(_)
len(s) == IF s = <<>> THEN 0 ELSE Utf8Len(Head(s)) + len(Tail(s))

\* A time.Time: seconds and nanoseconds since January 1, year 1, 00:00 UTC;
\* the seconds are kept as their decimal text.
Time(sec, nsec) == [sec |-> sec, nsec |-> nsec]

ZeroTime == Time("0", 0)

\* func (t Time) IsZero() bool
IsZero(t) == t.sec = "0" /\ t.nsec = 0

\* func (t Time) Unix() int64, as its decimal text.
Unix(t) ==
    CASE t.sec = "0" -> "-62135596800"
      [] t.sec = "62135596800" -> "0"
      [] t.sec = "63835596800" -> "1700000000"

ErrPasswordLength == "the length of password must be 6 to 12"

ErrStartEndRequired == "startTime and endTime is required but either/both is zero value"

\* CreateKeyCommand with the validity window required when both instants
\* are zero only.
CreateKeyCommand_BothZero(name, typ, password, start, end) ==
    IF len(password) < 6 \/ 12 < len(password)
    THEN [cmd |-> Nil, err |-> ErrPasswordLength]
    ELSE IF typ \in {TimeLimitPasscode, DisposablePasscode} /\ (IsZero(start) /\ IsZero(end))
    THEN [cmd |-> Nil, err |-> ErrStartEndRequired]
    ELSE [cmd |-> DeviceCommandRequest("createKey",
                    [name |-> name, type |-> typ, password |-> password,
                     startTime |-> Unix(start), endTime |-> Unix(end)],
                    "command"),
          err |-> Nil]

\* func CreateKeyCommand(name string, typ PasscodeType, password string,
\*     start, end time.Time) (Command, error)
\* The parameter is kept as the object that json.Marshal renders.
CreateKeyCommand(name, typ, password, start, end) ==
    IF len(password) < 6 \/ 12 < len(password)
    THEN [cmd |-> Nil, err |-> ErrPasswordLength]
    ELSE IF typ \in {TimeLimitPasscode, DisposablePasscode} /\ (IsZero(start) \/ IsZero(end))
    THEN [cmd |-> Nil, err |-> ErrStartEndRequired]
    ELSE [cmd |-> DeviceCommandRequest("createKey",
                    [name |-> name, type |-> typ, password |-> password,
                     startTime |-> Unix(start), endTime |-> Unix(end)],
                    "command"),
          err |-> Nil]

\* func (power PowerState) ToLower() string: strings.ToLower over the
\* letters that PowerOn and PowerOff are spelled with.
PowerState_ToLower(power) ==
    [i \in 1..Len(power) |->
        CASE power[i] = "O" -> "o"
          [] power[i] = "N" -> "n"
          [] power[i] = "F" -> "f"
          [] OTHER -> power[i]]

\* The constructors of device.go that take no argument, each with the
\* command it names; all of them have the parameter "default".
NullaryCommands ==
    {<<"TurnOnCommand", "turnOn">>, <<"TurnOffCommand", "turnOff">>,
     <<"PressCommand", "press">>, <<"LockCommand", "lock">>,
     <<"UnlockCommand", "unlock">>, <<"ToggleCommand", "toggle">>,
     <<"StartCommand", "start">>, <<"StopCommand", "stop">>,
     <<"DockCommand", "dock">>, <<"FullyOpenCommand", "fullyOpen">>,
     <<"CloseUpCommand", "closeUp">>, <<"CloseDownCommand", "closeDown">>,
     <<"VolumeAddCommand", "volumeAdd">>, <<"VolumeSubCommand", "volumeSub">>,
     <<"ChannelAddCommand", "channelAdd">>, <<"ChannelSubCommand", "channelSub">>,
     <<"SetMuteCommand", "setMute">>, <<"FastForwardCommand", "FastForward">>,
     <<"RewindCommand", "Rewind">>, <<"NextCommand", "Next">>,
     <<"PreviousCommand", "Previous">>, <<"PauseCommand", "Pause">>,
     <<"PlayCommand", "Play">>, <<"StopPlayerCommand", "Stop">>,
     <<"FanSwingCommand", "swing">>, <<"FanTimerCommand", "timer">>,
     <<"FanLowSpeedCommand", "lowSpeed">>, <<"FanMiddleSpeedCommand", "middleSpeed">>,
     <<"FanHighSpeedCommand", "highSpeed">>,
     <<"LightBrightnessUpCommand", "brightnessUp">>,
     <<"LightBrightnessDownCommand", "brightnessDown">>}

\* The Command that the constructor fn of device.go returns for the
\* arguments a: a.n holds its int arguments in their order, a.s its string
\* argument. A parameter is the sequence of its characters.
Constructor(fn, a) ==
    LET default == <<"d", "e", "f", "a", "u", "l", "t">>
        AutoMode == 0 - 1
        SetModeCommand(mode) ==
            DeviceCommandRequest("setMode",
                IF mode = AutoMode THEN <<"a", "u", "t", "o">> ELSE Itoa(mode),
                "command")
        SetAllStatusCommand(power, fanMode, fanSpeed, shakeRange) ==
            DeviceCommandRequest("setAllStatus",
                PowerState_ToLower(power) \o <<",">> \o Itoa(fanMode) \o <<",">>
                    \o Itoa(fanSpeed) \o <<",">> \o Itoa(shakeRange),
                "command")
        SetBrightnessCommand(level) ==
            DeviceCommandRequest("setBrightness", Itoa(level), "command")
        SetColorCommand(red, green, blue) ==
            DeviceCommandRequest("setColor",
                Itoa(red) \o <<":">> \o Itoa(green) \o <<":">> \o Itoa(blue),
                "command")
        SetColorTemperatureCommand(temperature) ==
            DeviceCommandRequest("setColorTemperature", Itoa(temperature), "command")
        PowLevelCommand(level) ==
            DeviceCommandRequest("PowLevel", Itoa(level), "command")
        DeleteKeyCommand(id) ==
            DeviceCommandRequest("deleteKey",
                <<"{", "\"", "i", "d", "\"", ":", " ">> \o Itoa(id) \o <<"}">>,
                "command")
        ButtonPushCommand(name) ==
            DeviceCommandRequest(name, default, "customize")
        BlindTiltSetPositionCommand(direction, position) ==
            DeviceCommandRequest("setPosition",
                direction \o <<";">> \o Itoa(position),
                "command")
        ACSetAllCommand(temperature, mode, fanSpeed, power) ==
            DeviceCommandRequest("setAll",
                Itoa(temperature) \o <<",">> \o Itoa(mode) \o <<",">>
                    \o Itoa(fanSpeed) \o <<",">> \o PowerState_ToLower(power),
                "command")
        SetChannelCommand(channelNumber) ==
            DeviceCommandRequest("SetChannel", Itoa(channelNumber), "command")
    IN
    CASE fn = "SetModeCommand" -> SetModeCommand(a.n[1])
      [] fn = "SetAllStatusCommand" -> SetAllStatusCommand(a.s, a.n[1], a.n[2], a.n[3])
      [] fn = "SetBrightnessCommand" -> SetBrightnessCommand(a.n[1])
      [] fn = "SetColorCommand" -> SetColorCommand(a.n[1], a.n[2], a.n[3])
      [] fn = "SetColorTemperatureCommand" -> SetColorTemperatureCommand(a.n[1])
      [] fn = "PowLevelCommand" -> PowLevelCommand(a.n[1])
      [] fn = "DeleteKeyCommand" -> DeleteKeyCommand(a.n[1])
      [] fn = "ButtonPushCommand" -> ButtonPushCommand(a.s)
      [] fn = "BlindTiltSetPositionCommand" -> BlindTiltSetPositionCommand(a.s, a.n[1])
      [] fn = "ACSetAllCommand" -> ACSetAllCommand(a.n[1], a.n[2], a.n[3], a.s)
      [] fn = "SetChannelCommand" -> SetChannelCommand(a.n[1])
      [] OTHER ->
            LET nullary == CHOOSE c \in NullaryCommands : c[1] = fn IN
            DeviceCommandRequest(nullary[2], default, "command")

\* Request() rendering an envelope without its parameter.
DeviceCommandRequest_Request_NoParameter(request) ==
    [request EXCEPT !.Parameter = <<>>]

\* func (req DeviceCommandRequest) Request() DeviceCommandRequest
DeviceCommandRequest_Request(request) == request

----------------------------------------------------------------------------
(* The arguments the constructors are called with *)

\* Positions range this far below 0 and above 100.
PosSlack == 2

\* Curtain indexes range over -MaxIndex..MaxIndex.
MaxIndex == 1

\* Modes range from -1, below the declared ones, to MaxMode, above them.
MaxMode == 3

\* A password has up to MaxAscii one-byte characters, then up to MaxWide
\* characters of several bytes.
MaxAscii == 13

MaxWide == 3

Positions == (0 - PosSlack)..(100 + PosSlack)

Indexes == (0 - MaxIndex)..MaxIndex

Modes == (0 - 1)..MaxMode

Repeat(c, n) == [i \in 1..n |-> c]

Passwords ==
    {Repeat("1", k) \o Repeat(w, m) :
        k \in 0..MaxAscii, m \in 0..MaxWide, w \in {"U+00E9", "U+9375"}}

PasscodeTypes ==
    {PermanentPasscode, TimeLimitPasscode, DisposablePasscode, UrgentPasscode, "other"}

\* The zero time, the instant one nanosecond after it, the Unix epoch and a
\* later instant.
Times ==
    {ZeroTime, Time("0", 1), Time("62135596800", 0), Time("63835596800", 0)}

\* The calls of the remaining constructors: the int arguments around zero
\* and AutoMode, the string argument empty, in both cases and mixed.
ConstructorCalls ==
    LET Ints == {0 - 1, 0, 12}
        PowerStates == {<<>>, <<"O", "N">>, <<"O", "F", "F">>, <<"o", "F", "f">>}
        Names == {<<>>, <<"u", "p">>, <<"T", "V">>}
        Args(k, strings) == {[n |-> n, s |-> str] : n \in [1..k -> Ints], str \in strings}
    IN
    ({c[1] : c \in NullaryCommands} \X Args(0, {<<>>}))
    \cup ({"SetModeCommand", "SetBrightnessCommand", "SetColorTemperatureCommand",
           "PowLevelCommand", "DeleteKeyCommand", "SetChannelCommand"} \X Args(1, {<<>>}))
    \cup ({"SetColorCommand"} \X Args(3, {<<>>}))
    \cup ({"SetAllStatusCommand", "ACSetAllCommand"} \X Args(3, PowerStates))
    \cup ({"ButtonPushCommand"} \X Args(0, Names))
    \cup ({"BlindTiltSetPositionCommand"} \X Args(1, Names))

\* A constructor is a pure function of its arguments: a behaviour is one call.
InitCommand ==
    /\ recv = "Command"
    /\ b = NoInput
    /\ is = <<>>
    /\ brightness = ZeroBrightnessState
    /\ decoded = <<>>
    /\ ret = NoRet
    /\ call = NoCall
    /\ rpc = NoRPC
    /\ req = NoRequest

\* SetPosition(index, mode, position).Request()
CallSetPosition(index, mode, position) ==
    /\ call = NoCall
    /\ call' = [fn |-> "SetPosition",
                args |-> [index |-> index, mode |-> mode, position |-> position],
                cmd |-> SetPosition(index, mode, position),
                err |-> Nil]
    /\ UNCHANGED <<recv, b, is, brightness, decoded, ret, rpc, req>>

\* The earlier SetPosition(index, mode, position).request()
CallSetPositionRequest(index, mode, position) ==
    /\ call = NoCall
    /\ call' = [fn |-> "setPositionCommand.request",
                args |-> [index |-> index, mode |-> mode, position |-> position],
                cmd |-> setPositionCommand_request(
                            SetPosition_setPositionCommand(index, mode, position)),
                err |-> Nil]
    /\ UNCHANGED <<recv, b, is, brightness, decoded, ret, rpc, req>>

\* CreateKeyCommand(name, typ, password, start, end)
CallCreateKeyCommand(name, typ, password, start, end) ==
    /\ call = NoCall
    /\ LET r == CreateKeyCommand(name, typ, password, start, end) IN
        call' = [fn |-> "CreateKeyCommand",
                 args |-> [name |-> name, typ |-> typ, password |-> password,
                           start |-> start, end |-> end],
                 cmd |-> r.cmd,
                 err |-> r.err]
    /\ UNCHANGED <<recv, b, is, brightness, decoded, ret, rpc, req>>

\* fn(a...) of device.go, and Request() called twice on what it returns.
CallConstructor(fn, a) ==
    /\ call = NoCall
    /\ LET cmd == Constructor(fn, a) IN
        call' = [fn |-> fn,
                 args |-> a,
                 cmd |-> cmd,
                 err |-> Nil,
                 requests |-> <<DeviceCommandRequest_Request(cmd),
                                DeviceCommandRequest_Request(cmd)>>]
    /\ UNCHANGED <<recv, b, is, brightness, decoded, ret, rpc, req>>

NextCommand ==
    \/ \E index \in Indexes, mode \in Modes, position \in Positions :
            CallSetPosition(index, mode, position)
    \/ \E index \in Indexes, mode \in Modes, position \in Positions :
            CallSetPositionRequest(index, mode, position)
    \/ \E typ \in PasscodeTypes, password \in Passwords, start \in Times, end \in Times :
            CallCreateKeyCommand("guest", typ, password, start, end)
    \/ \E c \in ConstructorCalls :
            CallConstructor(c[1], c[2])

SpecCommand == InitCommand /\ [][NextCommand]_vars

----------------------------------------------------------------------------
(* The services: one request, one response envelope, one result *)

\* The largest statusCode a response envelope carries.
MaxStatusCode == 191

\* The smallest statusCode above zero a response envelope carries.
MinStatusCode == 99

\* Envelope status codes: 0 is what a response without a "statusCode" key
\* decodes to.
StatusCodes == {0} \cup (MinStatusCode .. MaxStatusCode)

\* HTTP status codes: the eight Client.do turns into errors, and three it does not.
HTTPStatuses == {200, 400, 401, 403, 404, 406, 415, 422, 429, 500, 502}

\* What c.httpClient.Do(req) delivered: an error, or a response with an HTTP
\* status and a body that is a JSON envelope or is not JSON at all.
Transport(err, status, body) == [err |-> err, status |-> status, body |-> body]

Envelope(statusCode, body) == [valid |-> TRUE, statusCode |-> statusCode, body |-> body]

Malformed(zero) == [valid |-> FALSE, statusCode |-> 0, body |-> zero]

ErrDo == "Post \"https://api.switch-bot.com\": dial tcp: connection refused"

Transports(bodies, zero) ==
    {Transport(ErrDo, 0, Malformed(zero))}
        \cup {Transport(Nil, status, Malformed(zero)) : status \in HTTPStatuses}
        \cup {Transport(Nil, status, Envelope(statusCode, body)) :
                status \in HTTPStatuses, statusCode \in StatusCodes, body \in bodies}

\* What a service method returns: its value (the zero value on failure) and
\* its error, whose %d argument is in code.
Return(val, err, code) == [val |-> val, err |-> err, code |-> code]

\* func (c *Client) do(ctx, method, path, body) (*httpResponse, error)
\* of a client without WithDebug. body tells of the body of the response that
\* c.httpClient.Do delivered: "none" when Do failed, else "open", as do
\* neither reads nor closes it, in the *httpResponse or with no reference left.
Client_do(t) ==
    CASE t.err # Nil -> [resp |-> Malformed(t.body.body), err |-> t.err, body |-> "none"]
      [] t.status = 400 -> [resp |-> Malformed(t.body.body), err |-> "client has issues an invalid request", body |-> "open"]
      [] t.status = 401 -> [resp |-> Malformed(t.body.body), err |-> "authorization for the API is required but the request has not been authenticated", body |-> "open"]
      [] t.status = 403 -> [resp |-> Malformed(t.body.body), err |-> "the request has been authenticated but does not have permission or the resource is not found", body |-> "open"]
      [] t.status = 406 -> [resp |-> Malformed(t.body.body), err |-> "the client has requestd a MIM typ via the Accept header for a value not supported by the server", body |-> "open"]
      [] t.status = 415 -> [resp |-> Malformed(t.body.body), err |-> "the client has defined a Content-Type header that is not supported by the server", body |-> "open"]
      [] t.status = 422 -> [resp |-> Malformed(t.body.body), err |-> "the client has made a valid request but the server cannot process it", body |-> "open"]
      [] t.status = 429 -> [resp |-> Malformed(t.body.body), err |-> "the client has exceeded the number of requests allowed for a givn time window", body |-> "open"]
      [] t.status = 500 -> [resp |-> Malformed(t.body.body), err |-> "an unexpected error on the server has occurred", body |-> "open"]
      [] OTHER -> [resp |-> t.body, err |-> Nil, body |-> "open"]

ErrDecodingJSON == "decoding JSON data: %w"

\* func (resp *httpResponse) DecodeJSON(data interface{}) error
httpResponse_DecodeJSON(resp) ==
    IF resp.valid THEN Nil ELSE ErrDecodingJSON

ErrUnknownFromDeviceList == "unknown error %d from device list API"

ZeroDevicesBody == [deviceList |-> <<>>, infraredRemoteList |-> <<>>]

\* func (svc *DeviceService) List(ctx) ([]Device, []InfraredDevice, error)
DeviceService_List(t) ==
    LET got == Client_do(t)
        response == got.resp
    IN  CASE got.err # Nil -> Return(ZeroDevicesBody, got.err, 0)
          [] httpResponse_DecodeJSON(got.resp) # Nil ->
                Return(ZeroDevicesBody, httpResponse_DecodeJSON(got.resp), 0)
          [] response.statusCode = 190 ->
                Return(ZeroDevicesBody, "device internal error due to device states not synchronized with server or too many requests limit reached", 0)
          [] response.statusCode # 100 ->
                Return(ZeroDevicesBody, ErrUnknownFromDeviceList, response.statusCode)
          [] OTHER -> Return(response.body, Nil, 0)

\* DeviceStatus{}: of its fields, Type and Brightness are kept; the others
\* are plain fields decoded as Type is.
ZeroDeviceStatus == [Type |-> <<>>, Brightness |-> ZeroBrightnessState]

\* The decode of a deviceStatusResponse that reads "brightness" only when
\* "deviceType" is the device type of a bot.
deviceStatusResponse_Decode_ByType(resp) ==
    LET r == IF resp.body.deviceType = JSON("string", <<"B", "o", "t">>)
             THEN DeviceStatus_Brightness(resp.body)
             ELSE [brightness |-> ZeroBrightnessState, err |-> Nil]
        type == IF resp.body.deviceType = Absent THEN [ok |-> TRUE, val |-> <<>>]
                ELSE JsonUnmarshalString(resp.body.deviceType, <<>>)
    IN
    IF ~resp.valid THEN [response |-> [statusCode |-> 0, Body |-> ZeroDeviceStatus],
                         err |-> ErrDecodingJSON]
    ELSE [response |-> [statusCode |-> resp.statusCode,
                        Body |-> [Type |-> type.val, Brightness |-> r.brightness]],
          err |-> IF r.err # Nil \/ ~type.ok THEN ErrDecodingJSON ELSE Nil]

\* json.Decoder.Decode into a deviceStatusResponse: the body's "deviceType"
\* is decoded as a string into Type, the body's "brightness" is handed to
\* BrightnessState.UnmarshalJSON; an error of either fails the decode.
deviceStatusResponse_Decode(resp) ==
    LET r == DeviceStatus_Brightness(resp.body)
        type == IF resp.body.deviceType = Absent THEN [ok |-> TRUE, val |-> <<>>]
                ELSE JsonUnmarshalString(resp.body.deviceType, <<>>)
    IN
    IF ~resp.valid THEN [response |-> [statusCode |-> 0, Body |-> ZeroDeviceStatus],
                         err |-> ErrDecodingJSON]
    ELSE [response |-> [statusCode |-> resp.statusCode,
                        Body |-> [Type |-> type.val, Brightness |-> r.brightness]],
          err |-> IF r.err # Nil \/ ~type.ok THEN ErrDecodingJSON ELSE Nil]

\* DeviceService.Status with the test for 190 only, as the earlier Status had.
DeviceService_Status_Only190(t) ==
    LET got == Client_do(t)
        dec == deviceStatusResponse_Decode(got.resp)
        response == dec.response
    IN  CASE got.err # Nil -> Return(ZeroDeviceStatus, got.err, 0)
          [] dec.err # Nil -> Return(ZeroDeviceStatus, dec.err, 0)
          [] response.statusCode = 190 ->
                Return(ZeroDeviceStatus, "device internal error due to device states not synchronized with server", 0)
          [] OTHER -> Return(response.Body, Nil, 0)

\* func (svc *DeviceService) Status(ctx, id) (DeviceStatus, error)
DeviceService_Status(t) ==
    LET got == Client_do(t)
        dec == deviceStatusResponse_Decode(got.resp)
        response == dec.response
    IN  CASE got.err # Nil -> Return(ZeroDeviceStatus, got.err, 0)
          [] dec.err # Nil -> Return(ZeroDeviceStatus, dec.err, 0)
          [] response.statusCode = 190 ->
                Return(ZeroDeviceStatus, "device internal error due to device states not synchronized with server", 0)
          [] response.statusCode # 100 ->
                Return(ZeroDeviceStatus, ErrUnknownFromDeviceList, response.statusCode)
          [] OTHER -> Return(response.Body, Nil, 0)

\* The switch on response.StatusCode in DeviceService.Command, device offline
\* reported as device not found.
deviceCommandResponse_Error_OfflineAsNotFound(statusCode) ==
    CASE statusCode = 151 -> "device type error"
      [] statusCode = 152 -> "device not found"
      [] statusCode = 160 -> "command is not supported"
      [] statusCode = 161 -> "device not found"
      [] statusCode = 171 -> "hub device is offline"
      [] statusCode = 190 -> "device internal error due to device states not synchronizeed with server or command format is invalid"
      [] OTHER -> Nil

\* The switch on response.StatusCode in DeviceService.Command.
deviceCommandResponse_Error(statusCode) ==
    CASE statusCode = 151 -> "device type error"
      [] statusCode = 152 -> "device not found"
      [] statusCode = 160 -> "command is not supported"
      [] statusCode = 161 -> "device is offline"
      [] statusCode = 171 -> "hub device is offline"
      [] statusCode = 190 -> "device internal error due to device states not synchronizeed with server or command format is invalid"
      [] OTHER -> Nil

\* func (svc *DeviceService) Command(ctx, id, cmd) error
DeviceService_Command(t) ==
    LET got == Client_do(t)
        response == got.resp
    IN  CASE got.err # Nil -> Return(Nil, got.err, 0)
          [] httpResponse_DecodeJSON(got.resp) # Nil ->
                Return(Nil, httpResponse_DecodeJSON(got.resp), 0)
          [] OTHER -> Return(Nil, deviceCommandResponse_Error(response.statusCode), 0)

\* func (svc *DeviceService) Command(ctx, id, cmd) error of the /v1.0 client
DeviceService_Command_v10(t) ==
    LET got == Client_do(t)
        response == got.resp
    IN  CASE got.err # Nil -> Return(Nil, Nil, 0)
          [] httpResponse_DecodeJSON(got.resp) # Nil ->
                Return(Nil, httpResponse_DecodeJSON(got.resp), 0)
          [] OTHER -> Return(Nil, deviceCommandResponse_Error(response.statusCode), 0)

ErrSceneNotSynchronized == "device internal error due to device states not synchronized with server"

\* func (svc *SceneService) List(ctx) ([]Scene, error)
SceneService_List(t) ==
    LET got == Client_do(t)
        response == got.resp
    IN  CASE got.err # Nil -> Return(<<>>, got.err, 0)
          [] httpResponse_DecodeJSON(got.resp) # Nil ->
                Return(<<>>, httpResponse_DecodeJSON(got.resp), 0)
          [] response.statusCode = 190 -> Return(<<>>, ErrSceneNotSynchronized, 0)
          [] OTHER -> Return(response.body, Nil, 0)

\* func (svc *SceneService) Execute(ctx, id) error
SceneService_Execute(t) ==
    LET got == Client_do(t)
        response == got.resp
    IN  CASE got.err # Nil -> Return(Nil, got.err, 0)
          [] httpResponse_DecodeJSON(got.resp) # Nil ->
                Return(Nil, httpResponse_DecodeJSON(got.resp), 0)
          [] response.statusCode = 190 -> Return(Nil, ErrSceneNotSynchronized, 0)
          [] OTHER -> Return(Nil, Nil, 0)

ErrDeviceListAll == "deviceList value is only supporting \"ALL\" for now"

\* Setup sending its request whatever the deviceList.
WebhookService_Setup_AnyList(deviceList, t) ==
    LET got == Client_do(t) IN
    CASE got.err # Nil -> Return(Nil, got.err, 0)
      [] OTHER -> Return(Nil, Nil, 0)

\* func (svc *WebhookService) Setup(ctx, url, deviceList) error
WebhookService_Setup(deviceList, t) ==
    LET got == Client_do(t) IN
    CASE deviceList # "ALL" -> Return(Nil, ErrDeviceListAll, 0)
      [] got.err # Nil -> Return(Nil, got.err, 0)
      [] OTHER -> Return(Nil, Nil, 0)

\* func (svc *WebhookService) Update(ctx, url, enable) error
WebhookService_Update(t) ==
    LET got == Client_do(t) IN
    CASE got.err # Nil -> Return(Nil, got.err, 0)
      [] OTHER -> Return(Nil, Nil, 0)

\* func (svc *WebhookService) Delete(ctx, url) error
WebhookService_Delete(t) ==
    LET got == Client_do(t) IN
    CASE got.err # Nil -> Return(Nil, got.err, 0)
      [] OTHER -> Return(Nil, Nil, 0)

\* func (svc *WebhookService) Query(ctx, action, url) error
WebhookService_Query(action, url, t) ==
    LET got == Client_do(t) IN
    CASE action = "queryDetails" /\ url = "" ->
            Return(Nil, "URL need to be specified when the action is queryDetails", 0)
      [] got.err # Nil -> Return(Nil, got.err, 0)
      [] OTHER -> Return(Nil, Nil, 0)

\* func (svc *WebhookService) QueryUrl(ctx) (string, error)
WebhookService_QueryUrl(t) ==
    LET got == Client_do(t)
        response == got.resp
    IN  CASE got.err # Nil -> Return("", got.err, 0)
          [] httpResponse_DecodeJSON(got.resp) # Nil ->
                Return("", httpResponse_DecodeJSON(got.resp), 0)
          [] response.statusCode = 190 ->
                Return("", "undocumented error %d occurred for queryWebhook API: %s",
                       response.statusCode)
          [] response.statusCode # 100 ->
                Return("", "unknown error %d from queryWebhook API: %s", response.statusCode)
          [] Len(response.body.urls) < 1 ->
                Return("", "queryWebhook API response urls is empty", 0)
          [] OTHER -> Return(response.body.urls[1], Nil, 0)

\* func (svc *WebhookService) QueryDetails(ctx, url) (*WebhookQueryDetails, error)
WebhookService_QueryDetails(t) ==
    LET got == Client_do(t)
        response == got.resp
    IN  CASE got.err # Nil -> Return(Nil, got.err, 0)
          [] httpResponse_DecodeJSON(got.resp) # Nil ->
                Return(Nil, httpResponse_DecodeJSON(got.resp), 0)
          [] response.statusCode = 190 ->
                Return(Nil, "undocumented error %d occurred for queryWebhook API: %s",
                       response.statusCode)
          [] response.statusCode # 100 ->
                Return(Nil, "unknown error %d from queryWebhook API: %s", response.statusCode)
          [] Len(response.body) < 1 ->
                Return(Nil, "queryWebhook API response body is empty", 0)
          [] OTHER -> Return(response.body[1], Nil, 0)

\* The request a method hands to Client.get or Client.post: the HTTP method,
\* the path and the value encoded as the JSON body.
HTTPRequest(method, arg) ==
    CASE method = "DeviceService.List" ->
            [verb |-> "GET", path |-> "/v1.1/devices", body |-> Nil]
      [] method = "DeviceService.Status" ->
            [verb |-> "GET", path |-> "/v1.1/devices/id/status", body |-> Nil]
      [] method = "DeviceService.Command" ->
            [verb |-> "POST", path |-> "/v1.1/devices/id/commands", body |-> "cmd.Request()"]
      [] method = "DeviceService.Command/v1.0" ->
            [verb |-> "POST", path |-> "/v1.0/devices/id/commands", body |-> "cmd.request()"]
      [] method = "SceneService.List" ->
            [verb |-> "GET", path |-> "/v1.1/scenes", body |-> Nil]
      [] method = "SceneService.Execute" ->
            [verb |-> "POST", path |-> "/v1.1/scenes/id/execute", body |-> Nil]
      [] method = "WebhookService.Setup" ->
            [verb |-> "POST", path |-> "/v1.1/webhook/setupWebhook",
             body |-> IF arg[1] = ""
                      THEN [action |-> "setupWebhook", deviceList |-> arg[2]]
                      ELSE [action |-> "setupWebhook", url |-> arg[1], deviceList |-> arg[2]]]
      [] method = "WebhookService.Query" ->
            [verb |-> "POST", path |-> "/v1.1/webhook/queryWebhook",
             body |-> [action |-> arg[1],
                       urls |-> IF arg[1] = "queryDetails" THEN <<arg[2]>> ELSE <<>>]]
      [] method = "WebhookService.QueryUrl" ->
            [verb |-> "POST", path |-> "/v1.1/webhook/queryWebhook",
             body |-> [action |-> "queryUrl", urls |-> <<>>]]
      [] method = "WebhookService.QueryDetails" ->
            [verb |-> "POST", path |-> "/v1.1/webhook/queryWebhook",
             body |-> [action |-> "queryDetails", urls |-> <<"url">>]]
      [] method = "WebhookService.Update" ->
            [verb |-> "POST", path |-> "/v1.1/webhook/updateWebhook",
             body |-> [action |-> "updateWebhook",
                       config |-> [url |-> "url", enable |-> TRUE]]]
      [] method = "WebhookService.Delete" ->
            [verb |-> "POST", path |-> "/v1.1/webhook/deleteWebhook",
             body |-> [action |-> "deleteWebhook", url |-> "url"]]

\* The requests of a method that sends its request again after the first.
Requests_SentTwice(method, arg) ==
    CASE method = "WebhookService.Setup" /\ arg[2] # "ALL" -> <<>>
      [] method = "WebhookService.Query" /\ arg = <<"queryDetails", "">> -> <<>>
      [] OTHER -> <<HTTPRequest(method, arg), HTTPRequest(method, arg)>>

\* The requests a method hands to c.httpClient.Do during one call, in order:
\* none when it returns before Client.post, else the one of its single call
\* of Client.get or Client.post, which calls Client.do, which calls Do once.
Requests(method, arg) ==
    CASE method = "WebhookService.Setup" /\ arg[2] # "ALL" -> <<>>
      [] method = "WebhookService.Query" /\ arg = <<"queryDetails", "">> -> <<>>
      [] OTHER -> <<HTTPRequest(method, arg)>>

----------------------------------------------------------------------------
(* The responses the services are given *)

DevicesBodies ==
    {ZeroDevicesBody, [deviceList |-> <<"d1">>, infraredRemoteList |-> <<"ir1">>]}

ServiceStatusBodies ==
    {[brightness |-> v, deviceType |-> d] :
        v \in {Absent, JSON("number", <<"1">>), JSON("string", AmbientBrightnessBright),
               JSON("true", <<>>)},
        d \in {Absent, JSON("string", <<"B", "o", "t">>), JSON("string", <<"X", "1">>),
               JSON("number", <<"1">>)}}

ScenesBodies == {<<>>, <<"s1">>}

\* Responses whose body no method reads.
EmptyBodies == {<<>>}

DeviceLists == {"ALL", "d1", "all", ""}

\* A method is a function of the response it is given: a behaviour is one call.
InitService ==
    /\ recv = "Service"
    /\ b = NoInput
    /\ is = <<>>
    /\ brightness = ZeroBrightnessState
    /\ decoded = <<>>
    /\ ret = NoRet
    /\ call = NoCall
    /\ rpc = NoRPC
    /\ req = NoRequest

\* One call of a method. Every method that gets an *httpResponse from
\* Client.get or Client.post defers its Close, which drains and closes the
\* body; a method that gets nil has nothing to close.
Called(method, deviceList, t, sent, r) ==
    /\ rpc = NoRPC
    /\ rpc' = [method |-> method, deviceList |-> deviceList, transport |-> t,
               sent |-> sent, requests |-> Requests(method, deviceList), ret |-> r,
               body |-> IF ~sent THEN "none"
                        ELSE IF Client_do(t).err = Nil THEN "closed"
                        ELSE Client_do(t).body]
    /\ UNCHANGED <<recv, b, is, brightness, decoded, ret, call, req>>

\* devices, infrared, err := client.Device().List(ctx)
CallDeviceList(t) == Called("DeviceService.List", "", t, TRUE, DeviceService_List(t))

\* status, err := client.Device().Status(ctx, id)
CallDeviceStatus(t) == Called("DeviceService.Status", "", t, TRUE, DeviceService_Status(t))

\* err := client.Device().Command(ctx, id, cmd)
CallDeviceCommand(t) == Called("DeviceService.Command", "", t, TRUE, DeviceService_Command(t))

\* err := client.Device().Command(ctx, id, cmd) of the /v1.0 client
CallDeviceCommand_v10(t) ==
    Called("DeviceService.Command/v1.0", "", t, TRUE, DeviceService_Command_v10(t))

\* scenes, err := client.Scene().List(ctx)
CallSceneList(t) == Called("SceneService.List", "", t, TRUE, SceneService_List(t))

\* err := client.Scene().Execute(ctx, id)
CallSceneExecute(t) == Called("SceneService.Execute", "", t, TRUE, SceneService_Execute(t))

\* err := client.Webhook().Setup(ctx, url, deviceList)
CallWebhookSetup(url, deviceList, t) ==
    Called("WebhookService.Setup", <<url, deviceList>>, t, deviceList = "ALL",
           WebhookService_Setup(deviceList, t))

\* err := client.Webhook().Query(ctx, action, url)
CallWebhookQuery(action, url, t) ==
    Called("WebhookService.Query", <<action, url>>, t, ~(action = "queryDetails" /\ url = ""),
           WebhookService_Query(action, url, t))

\* url, err := client.Webhook().QueryUrl(ctx)
CallWebhookQueryUrl(t) ==
    Called("WebhookService.QueryUrl", "", t, TRUE, WebhookService_QueryUrl(t))

\* details, err := client.Webhook().QueryDetails(ctx, url)
CallWebhookQueryDetails(t) ==
    Called("WebhookService.QueryDetails", "", t, TRUE, WebhookService_QueryDetails(t))

\* err := client.Webhook().Update(ctx, url, enable)
CallWebhookUpdate(t) == Called("WebhookService.Update", "", t, TRUE, WebhookService_Update(t))

\* err := client.Webhook().Delete(ctx, url)
CallWebhookDelete(t) == Called("WebhookService.Delete", "", t, TRUE, WebhookService_Delete(t))

\* The guard of every method call stands before its choice of a response.
NextService ==
    \/ rpc = NoRPC /\ \E t \in Transports(DevicesBodies, ZeroDevicesBody) : CallDeviceList(t)
    \/ rpc = NoRPC /\ \E t \in Transports(ServiceStatusBodies, [brightness |-> Absent, deviceType |-> Absent]) : CallDeviceStatus(t)
    \/ rpc = NoRPC /\ \E t \in Transports(EmptyBodies, <<>>) : CallDeviceCommand(t)
    \/ rpc = NoRPC /\ \E t \in Transports(EmptyBodies, <<>>) : CallDeviceCommand_v10(t)
    \/ rpc = NoRPC /\ \E t \in Transports(ScenesBodies, <<>>) : CallSceneList(t)
    \/ rpc = NoRPC /\ \E t \in Transports(EmptyBodies, <<>>) : CallSceneExecute(t)
    \/ rpc = NoRPC /\ \E url \in {"", "url"}, deviceList \in DeviceLists,
          t \in Transports(EmptyBodies, <<>>) : CallWebhookSetup(url, deviceList, t)
    \/ rpc = NoRPC /\ \E action \in {"queryUrl", "queryDetails"}, url \in {"", "url"},
          t \in Transports(EmptyBodies, <<>>) : CallWebhookQuery(action, url, t)
    \/ rpc = NoRPC /\ \E t \in Transports({[urls |-> <<>>], [urls |-> <<"url", "url2">>]}, [urls |-> <<>>]) :
            CallWebhookQueryUrl(t)
    \/ rpc = NoRPC /\ \E t \in Transports({<<>>, <<[url |-> "url", enable |-> TRUE]>>}, <<>>) :
            CallWebhookQueryDetails(t)
    \/ rpc = NoRPC /\ \E t \in Transports(EmptyBodies, <<>>) : CallWebhookUpdate(t)
    \/ rpc = NoRPC /\ \E t \in Transports(EmptyBodies, <<>>) : CallWebhookDelete(t)

SpecService == InitService /\ [][NextService]_vars

----------------------------------------------------------------------------
(* Webhook events: the JSON document of a request and the event structs *)

\* A JSON value of a webhook document, or the absence of the key.
WString(s) == [kind |-> "string", str |-> s, num |-> 0, frac |-> FALSE]

WNumber(n) == [kind |-> "number", str |-> "", num |-> n, frac |-> FALSE]

\* The number n + 0.5, which no Go integer can hold.
WFraction(n) == [kind |-> "number", str |-> "", num |-> n, frac |-> TRUE]

WNull == [kind |-> "null", str |-> "", num |-> 0, frac |-> FALSE]

WAbsent == [kind |-> "absent", str |-> "", num |-> 0, frac |-> FALSE]

\* The fields every event context struct has, by JSON key, with their Go types.
CommonContext ==
    [deviceType |-> "string", deviceMac |-> "string", timeOfSample |-> "int64"]

\* The context struct of each event struct: its fields by JSON key, with
\* their Go types.
EventContext(event) ==
    CASE event = "MotionSensorEvent" ->
            CommonContext @@
                [detectionState |-> "string"]
      [] event = "ContactSensorEvent" ->
            CommonContext @@
                [detectionState |-> "string",
                 doorMode |-> "string", brightness |-> "string", openState |-> "string"]
      [] event = "MeterEvent" ->
            CommonContext @@
                [temperature |-> "float64", scale |-> "string",
                 humidity |-> "int"]
      [] event = "MeterPlusEvent" ->
            CommonContext @@
                [temperature |-> "float64", scale |-> "string",
                 humidity |-> "int"]
      [] event = "LockEvent" ->
            CommonContext @@
                [lockState |-> "string"]
      [] event = "IndoorCamEvent" ->
            CommonContext @@
                [detectionState |-> "string"]
      [] event = "PanTiltCamEvent" ->
            CommonContext @@
                [detectionState |-> "string"]
      [] event = "ColorBulbEvent" ->
            CommonContext @@
                [powerState |-> "string",
                 brightness |-> "int", color |-> "string", colorTemperature |-> "int"]
      [] event = "StripLightEvent" ->
            CommonContext @@
                [powerState |-> "string",
                 brightness |-> "int", color |-> "string"]
      [] event = "PlugMiniJPEvent" ->
            CommonContext @@
                [powerState |-> "string"]
      [] event = "PlugMiniUSEvent" ->
            CommonContext @@
                [powerState |-> "string"]
      [] event = "SweeperEvent" ->
            CommonContext @@
                [workingStatus |-> "string",
                 onlineStatus |-> "string", battery |-> "int"]
      [] event = "CeilingEvent" ->
            CommonContext @@
                [powerState |-> "string",
                 brightness |-> "int", colorTemperature |-> "int"]
      [] event = "KeypadEvent" ->
            CommonContext @@
                [eventName |-> "string", commandId |-> "string",
                 result |-> "string"]

\* The zero value of a Go type.
Zero(type) ==
    CASE type = "string" -> ""
      [] type \in {"int", "int64"} -> 0
      [] type = "float64" -> <<0, FALSE>>

ErrUnmarshalTypeError == "json: cannot unmarshal %s into Go struct field %s of type %s"

\* json.Unmarshal of one JSON value into a struct field of the given type: an
\* absent key and null leave the zero value; a value of another shape leaves
\* it too and is reported as an UnmarshalTypeError.
UnmarshalField(type, v) ==
    CASE v.kind \in {"absent", "null"} -> [val |-> Zero(type), err |-> Nil]
      [] type = "string" /\ v.kind = "string" -> [val |-> v.str, err |-> Nil]
      [] type \in {"int", "int64"} /\ v.kind = "number" /\ ~v.frac ->
            [val |-> v.num, err |-> Nil]
      [] type = "float64" /\ v.kind = "number" -> [val |-> <<v.num, v.frac>>, err |-> Nil]
      [] OTHER -> [val |-> Zero(type), err |-> ErrUnmarshalTypeError]

\* json.Unmarshal of a JSON object into a struct: every field of the struct is
\* decoded from its key, keys the struct does not have are skipped, and the
\* first type error is returned after the rest has been decoded.
UnmarshalStruct(fields, object) ==
    [val |-> [k \in DOMAIN fields |-> UnmarshalField(fields[k], object[k]).val],
     err |-> IF \E k \in DOMAIN fields : UnmarshalField(fields[k], object[k]).err # Nil
             THEN ErrUnmarshalTypeError ELSE Nil]

\* An event struct with its three fields.
Event(type, eventType, eventVersion, context) ==
    [type |-> type, EventType |-> eventType, EventVersion |-> eventVersion,
     Context |-> context]

\* The nil interface value ParseWebhookRequest returns with an error.
NilEvent == Event("nil", "", "", <<>>)

\* Decode(&event) that reports no field of the wrong JSON shape.
Event_Decode_TypeErrorsIgnored(type, document) ==
    LET eventType == UnmarshalField("string", document.eventType)
        eventVersion == UnmarshalField("string", document.eventVersion)
        context == UnmarshalStruct(EventContext(type), document.context)
    IN  [event |-> Event(type, eventType.val, eventVersion.val, context.val),
         err |-> Nil]

\* json.Decoder.Decode(&event) for a document, into an event struct.
Event_Decode(type, document) ==
    LET eventType == UnmarshalField("string", document.eventType)
        eventVersion == UnmarshalField("string", document.eventVersion)
        context == UnmarshalStruct(EventContext(type), document.context)
    IN  [event |-> Event(type, eventType.val, eventVersion.val, context.val),
         err |-> IF eventType.err # Nil \/ eventVersion.err # Nil \/ context.err # Nil
                 THEN ErrUnmarshalTypeError ELSE Nil]

\* json.Decoder.Decode(&deviceTypeBody) for a document: context.deviceType.
deviceTypeBody_Decode(document) ==
    LET r == UnmarshalField("string", document.context.deviceType) IN
    [deviceType |-> r.val, err |-> r.err]

\* The switch of ParseWebhookRequest with the events of the two plugs exchanged.
EventOfDeviceType_PlugsExchanged(deviceType) ==
    CASE deviceType = "WoPresence" -> "MotionSensorEvent"
      [] deviceType = "WoContact" -> "ContactSensorEvent"
      [] deviceType = "WoLock" -> "LockEvent"
      [] deviceType = "WoCamera" -> "IndoorCamEvent"
      [] deviceType = "WoPanTiltCam" -> "PanTiltCamEvent"
      [] deviceType = "WoBulb" -> "ColorBulbEvent"
      [] deviceType = "WoStrip" -> "StripLightEvent"
      [] deviceType = "WoPlugUS" -> "PlugMiniJPEvent"
      [] deviceType = "WoPlugJP" -> "PlugMiniUSEvent"
      [] deviceType = "WoMeter" -> "MeterEvent"
      [] deviceType = "WoMeterPlus" -> "MeterPlusEvent"
      [] deviceType \in {"WoSweeper", "WoSweeperPlus"} -> "SweeperEvent"
      [] deviceType \in {"WoCeiling", "WoCeilingPro"} -> "CeilingEvent"
      [] deviceType \in {"WoKeypad", "WoKeypadTouch"} -> "KeypadEvent"
      [] OTHER -> ""

\* The switch of ParseWebhookRequest with one device type per case: the first
\* of each list.
EventOfDeviceType_OneTokenPerCase(deviceType) ==
    CASE deviceType = "WoPresence" -> "MotionSensorEvent"
      [] deviceType = "WoContact" -> "ContactSensorEvent"
      [] deviceType = "WoLock" -> "LockEvent"
      [] deviceType = "WoCamera" -> "IndoorCamEvent"
      [] deviceType = "WoPanTiltCam" -> "PanTiltCamEvent"
      [] deviceType = "WoBulb" -> "ColorBulbEvent"
      [] deviceType = "WoStrip" -> "StripLightEvent"
      [] deviceType = "WoPlugUS" -> "PlugMiniUSEvent"
      [] deviceType = "WoPlugJP" -> "PlugMiniJPEvent"
      [] deviceType = "WoMeter" -> "MeterEvent"
      [] deviceType = "WoMeterPlus" -> "MeterPlusEvent"
      [] deviceType = "WoSweeper" -> "SweeperEvent"
      [] deviceType = "WoCeiling" -> "CeilingEvent"
      [] deviceType = "WoKeypad" -> "KeypadEvent"
      [] OTHER -> ""

\* The switch of ParseWebhookRequest with a default case that decodes a
\* MotionSensorEvent.
EventOfDeviceType_DefaultEvent(deviceType) ==
    CASE deviceType = "WoPresence" -> "MotionSensorEvent"
      [] deviceType = "WoContact" -> "ContactSensorEvent"
      [] deviceType = "WoLock" -> "LockEvent"
      [] deviceType = "WoCamera" -> "IndoorCamEvent"
      [] deviceType = "WoPanTiltCam" -> "PanTiltCamEvent"
      [] deviceType = "WoBulb" -> "ColorBulbEvent"
      [] deviceType = "WoStrip" -> "StripLightEvent"
      [] deviceType = "WoPlugUS" -> "PlugMiniUSEvent"
      [] deviceType = "WoPlugJP" -> "PlugMiniJPEvent"
      [] deviceType = "WoMeter" -> "MeterEvent"
      [] deviceType = "WoMeterPlus" -> "MeterPlusEvent"
      [] deviceType \in {"WoSweeper", "WoSweeperPlus"} -> "SweeperEvent"
      [] deviceType \in {"WoCeiling", "WoCeilingPro"} -> "CeilingEvent"
      [] deviceType \in {"WoKeypad", "WoKeypadTouch"} -> "KeypadEvent"
      [] OTHER -> "MotionSensorEvent"

\* The switch of ParseWebhookRequest: the event struct of a device type, or
\* "" for the default case.
EventOfDeviceType(deviceType) ==
    CASE deviceType = "WoPresence" -> "MotionSensorEvent"
      [] deviceType = "WoContact" -> "ContactSensorEvent"
      [] deviceType = "WoLock" -> "LockEvent"
      [] deviceType = "WoCamera" -> "IndoorCamEvent"
      [] deviceType = "WoPanTiltCam" -> "PanTiltCamEvent"
      [] deviceType = "WoBulb" -> "ColorBulbEvent"
      [] deviceType = "WoStrip" -> "StripLightEvent"
      [] deviceType = "WoPlugUS" -> "PlugMiniUSEvent"
      [] deviceType = "WoPlugJP" -> "PlugMiniJPEvent"
      [] deviceType = "WoMeter" -> "MeterEvent"
      [] deviceType = "WoMeterPlus" -> "MeterPlusEvent"
      [] deviceType \in {"WoSweeper", "WoSweeperPlus"} -> "SweeperEvent"
      [] deviceType \in {"WoCeiling", "WoCeilingPro"} -> "CeilingEvent"
      [] deviceType \in {"WoKeypad", "WoKeypadTouch"} -> "KeypadEvent"
      [] OTHER -> ""

ErrUnknownDeviceType == "unknown device type: %s"

----------------------------------------------------------------------------
(* Webhook requests: the bytes of a body, read through a json.Decoder *)

\* A body is kept twice: as the document its first JSON value spells, and as
\* its bytes by the part they play in framing: "{" and "}" open and close an
\* object, "m" is a byte of a member, " " is white space, "!" is a byte no
\* JSON text has at that place.

\* const minRead of json.Decoder.refill, in bytes of this model.
MinRead == 2

\* The most member bytes before the context object of a body.
MaxMembers == 1

\* The most bytes of white space after the JSON value of a body.
MaxTail == 2

Min(x, y) == IF x < y THEN x ELSE y

\* json.NewDecoder(r): nothing buffered, no buffer allocated.
NewDecoder == [buf |-> <<>>, cap |-> 0]

\* The scanner on the buffered bytes from position i at nesting depth:
\* "end" when the first value is complete, "more" when it is not yet,
\* "syntax" at a byte that cannot follow.
RECURSIVE Scan(_, _, _)
Scan(buf, i, depth) ==
    IF i > Len(buf) THEN "more"
    ELSE IF depth = 0
         THEN CASE buf[i] = " " -> Scan(buf, i + 1, 0)
                [] buf[i] = "{" -> Scan(buf, i + 1, 1)
                [] OTHER -> "syntax"
         ELSE CASE buf[i] = "{" -> Scan(buf, i + 1, depth + 1)
                [] buf[i] = "}" -> IF depth = 1 THEN "end" ELSE Scan(buf, i + 1, depth - 1)
                [] buf[i] = "!" -> "syntax"
                [] OTHER -> Scan(buf, i + 1, depth)

\* func (dec *Decoder) refill(): the capacity of the buffer once it has been
\* grown to leave room for minRead bytes.
Decoder_refill_cap(dec) ==
    IF dec.cap - Len(dec.buf) < MinRead THEN 2 * dec.cap + MinRead ELSE dec.cap

\* The bytes a reader has not delivered yet.
Remaining(body) == Len(body.data) - body.off

\* How many bytes one Read into p may deliver: a request body delivers what
\* has arrived, at least one byte; a bytes.Buffer delivers all it can.
ReadSizes(body, p) ==
    IF body.reader = "network" THEN 1 .. Min(p, Remaining(body))
    ELSE {Min(p, Remaining(body))}

\* A Read of n bytes whose last byte the TeeReader does not write.
Read_TeeDropsLast(body, dec, n) ==
    [body |-> [body EXCEPT !.off = @ + n],
     chunk |-> SubSeq(body.data, body.off + 1, body.off + n - 1),
     dec |-> [buf |-> dec.buf \o SubSeq(body.data, body.off + 1, body.off + n),
              cap |-> Decoder_refill_cap(dec)]]

\* The reader and the decoder after a Read of n bytes.
Read(body, dec, n) ==
    [body |-> [body EXCEPT !.off = @ + n],
     chunk |-> SubSeq(body.data, body.off + 1, body.off + n),
     dec |-> [buf |-> dec.buf \o SubSeq(body.data, body.off + 1, body.off + n),
              cap |-> Decoder_refill_cap(dec)]]

ErrSyntax == "invalid character"

ErrUnexpectedEOF == "unexpected EOF"

ErrEOF == "EOF"

\* The error of Decoder.readValue once the reader is at its end or the value
\* is complete.
Decoder_readValue_err(dec) ==
    CASE Scan(dec.buf, 1, 0) = "end" -> Nil
      [] Scan(dec.buf, 1, 0) = "syntax" -> ErrSyntax
      [] \E i \in 1 .. Len(dec.buf) : dec.buf[i] # " " -> ErrUnexpectedEOF
      [] OTHER -> ErrEOF

\* The decoder wants another Read: the value is incomplete and the reader is
\* not known to be at its end.
WantsRead(body, dec) == Scan(dec.buf, 1, 0) = "more" /\ Remaining(body) > 0


----------------------------------------------------------------------------
(* ParseWebhookRequest, step by step *)

EventStructs ==
    {"MotionSensorEvent", "ContactSensorEvent", "MeterEvent", "MeterPlusEvent",
     "LockEvent", "IndoorCamEvent", "PanTiltCamEvent", "ColorBulbEvent",
     "StripLightEvent", "PlugMiniJPEvent", "PlugMiniUSEvent", "SweeperEvent",
     "CeilingEvent", "KeypadEvent"}

\* The device types the switch of ParseWebhookRequest has a case for.
DispatchTokens ==
    {"WoPresence", "WoContact", "WoLock", "WoCamera", "WoPanTiltCam", "WoBulb",
     "WoStrip", "WoPlugUS", "WoPlugJP", "WoMeter", "WoMeterPlus", "WoSweeper",
     "WoSweeperPlus", "WoCeiling", "WoCeilingPro", "WoKeypad", "WoKeypadTouch"}

\* The device types of the requests TestParseWebhook sends besides those.
TestedTokens == {"WoHand", "WoCurtain", "WoCurtain3", "WoIOSensor", "WoHub2"}

\* Device types no case and no test names.
OtherTokens == {"WoUnknown", "wopresence", "WOLOCK", "WoSweeperplus", ""}

\* Every key a context on the wire may have: the fields of the event
\* contexts, and "power", which none of them has.
ContextKeys == UNION {DOMAIN EventContext(e) : e \in EventStructs} \cup {"power"}

\* A value of the JSON shape a Go type decodes from.
Sample(type) ==
    CASE type = "string" -> WString("on")
      [] type \in {"int", "int64"} -> WNumber(7)
      [] type = "float64" -> WFraction(22)

\* The context object of a body with the given "deviceType" value: with no
\* other key, or with the keys of the given struct fields and "power".
MinimalContext(deviceType) ==
    [k \in ContextKeys |-> IF k = "deviceType" THEN deviceType ELSE WAbsent]

FullContext(deviceType, fields) ==
    [k \in ContextKeys |->
        CASE k = "deviceType" -> deviceType
          [] k = "power" -> WString("on")
          [] k \in DOMAIN fields -> Sample(fields[k])
          [] OTHER -> WAbsent]

Document(context) ==
    [eventType |-> WString("changeReport"), eventVersion |-> WString("1"),
     context |-> context]

\* The fields a sender fills for a device type: those of its event struct,
\* or the common ones when the device type has none.
FieldsOfDeviceType(deviceType) ==
    IF EventOfDeviceType(deviceType) = "" THEN CommonContext
    ELSE EventContext(EventOfDeviceType(deviceType))

Documents ==
    {Document(MinimalContext(WString(t))) :
        t \in DispatchTokens \cup TestedTokens \cup OtherTokens}
    \cup {Document(FullContext(WString(t), FieldsOfDeviceType(t))) :
        t \in DispatchTokens \cup TestedTokens \cup OtherTokens}
    \cup {Document(FullContext(v, CommonContext)) : v \in {WAbsent, WNull, WNumber(7)}}
    \cup {[Document(FullContext(WString(t), FieldsOfDeviceType(t)))
                EXCEPT !.context.timeOfSample = WString("now")] : t \in {"WoLock", "WoUnknown"}}
    \cup {[Document(MinimalContext(WString("WoMeter"))) EXCEPT !.eventType = WNumber(7)]}

\* The bytes of a body whose JSON value is an object with a nested context
\* object, followed by white space.
Frame(members, tail) ==
    <<"{">> \o Repeat("m", members) \o <<"{", "m", "}", "}">> \o Repeat(" ", tail)

\* Bodies that hold no complete JSON value.
BrokenFrames == {<<>>, <<" ">>, <<"{", "m", "{", "m", "}">>, <<"{", "!", "}">>}

WebhookBodies ==
    {[bytes |-> Frame(members, tail), json |-> document] :
        members \in 0 .. MaxMembers, tail \in 0 .. MaxTail, document \in Documents}
    \cup {[bytes |-> bytes, json |-> Document(MinimalContext(WString("WoLock")))] :
        bytes \in BrokenFrames}

InitWebhook ==
    /\ recv = "Webhook"
    /\ b = NoInput
    /\ is = <<>>
    /\ brightness = ZeroBrightnessState
    /\ decoded = <<>>
    /\ ret = NoRet
    /\ call = NoCall
    /\ rpc = NoRPC
    /\ req = NoRequest

\* A handler is handed r and calls ParseWebhookRequest(r).
Receive(body) ==
    /\ req = NoRequest
    /\ req' = [pc |-> "peek", original |-> body.bytes, json |-> body.json,
               Body |-> [reader |-> "network", data |-> body.bytes, off |-> 0],
               dec |-> NewDecoder, rawBody |-> <<>>, deviceType |-> "",
               target |-> "", event |-> NilEvent, err |-> Nil, errArg |-> "",
               calls |-> 1, first |-> [event |-> NilEvent, err |-> Nil],
               peeked |-> FALSE]
    /\ UNCHANGED <<recv, b, is, brightness, decoded, ret, call, rpc>>

\* deviceTypeFromWebhookRequest: the decoder reads n more bytes of r.Body
\* through the TeeReader, which writes them to rawBody.
PeekRead(n) ==
    /\ req.pc = "peek"
    /\ WantsRead(req.Body, req.dec)
    /\ n \in ReadSizes(req.Body, Decoder_refill_cap(req.dec) - Len(req.dec.buf))
    /\ LET r == Read(req.Body, req.dec, n) IN
        req' = [req EXCEPT !.Body = r.body, !.dec = r.dec, !.rawBody = @ \o r.chunk]
    /\ UNCHANGED <<recv, b, is, brightness, decoded, ret, call, rpc>>

\* deviceTypeFromWebhookRequest returns: with the decoder's error, or with
\* r.Body replaced by rawBody and the device type, on which
\* ParseWebhookRequest switches; peeked tells that it returned no error.
PeekReturn ==
    /\ req.pc = "peek"
    /\ ~WantsRead(req.Body, req.dec)
    /\ LET readErr == Decoder_readValue_err(req.dec)
           peek == deviceTypeBody_Decode(req.json)
           err == IF readErr # Nil THEN readErr ELSE peek.err
           replay == [reader |-> "buffer", data |-> req.rawBody, off |-> 0]
       IN  req' = CASE err # Nil -> [req EXCEPT !.pc = "done", !.err = err]
                    [] EventOfDeviceType(peek.deviceType) = "" ->
                        [req EXCEPT !.pc = "done", !.Body = replay, !.peeked = TRUE,
                                    !.deviceType = peek.deviceType,
                                    !.err = ErrUnknownDeviceType,
                                    !.errArg = peek.deviceType]
                    [] OTHER ->
                        [req EXCEPT !.pc = "decode", !.Body = replay, !.peeked = TRUE,
                                    !.deviceType = peek.deviceType,
                                    !.target = EventOfDeviceType(peek.deviceType),
                                    !.dec = NewDecoder]
    /\ UNCHANGED <<recv, b, is, brightness, decoded, ret, call, rpc>>

\* json.NewDecoder(r.Body).Decode(&event): the decoder reads more of the
\* replaced r.Body.
DecodeRead(n) ==
    /\ req.pc = "decode"
    /\ WantsRead(req.Body, req.dec)
    /\ n \in ReadSizes(req.Body, Decoder_refill_cap(req.dec) - Len(req.dec.buf))
    /\ LET r == Read(req.Body, req.dec, n) IN
        req' = [req EXCEPT !.Body = r.body, !.dec = r.dec]
    /\ UNCHANGED <<recv, b, is, brightness, decoded, ret, call, rpc>>

\* ParseWebhookRequest returns &event, nil or nil, err.
DecodeReturn ==
    /\ req.pc = "decode"
    /\ ~WantsRead(req.Body, req.dec)
    /\ LET readErr == Decoder_readValue_err(req.dec)
           full == Event_Decode(req.target, req.json)
           err == IF readErr # Nil THEN readErr ELSE full.err
       IN  req' = IF err # Nil THEN [req EXCEPT !.pc = "done", !.err = err]
                  ELSE [req EXCEPT !.pc = "done", !.event = full.event]
    /\ UNCHANGED <<recv, b, is, brightness, decoded, ret, call, rpc>>

\* A second call that finds r.Body rewound to its first byte.
ParseAgain_Rewound ==
    /\ req.pc = "done"
    /\ req.calls = 1
    /\ req' = [req EXCEPT !.pc = "peek", !.calls = 2,
                          !.first = [event |-> req.event, err |-> req.err],
                          !.original = req.Body.data,
                          !.Body = [@ EXCEPT !.off = 0],
                          !.dec = NewDecoder, !.rawBody = <<>>, !.deviceType = "",
                          !.target = "", !.event = NilEvent, !.err = Nil,
                          !.errArg = "", !.peeked = FALSE]
    /\ UNCHANGED <<recv, b, is, brightness, decoded, ret, call, rpc>>

\* The handler calls ParseWebhookRequest(r) once more on the same request:
\* the call starts with r.Body as the first call left it, which is its
\* original body, and with a rawBody and decoders of its own. first keeps
\* what the first call returned.
ParseAgain ==
    /\ req.pc = "done"
    /\ req.calls = 1
    /\ req' = [req EXCEPT !.pc = "peek", !.calls = 2,
                          !.first = [event |-> req.event, err |-> req.err],
                          !.original = SubSeq(req.Body.data, req.Body.off + 1,
                                              Len(req.Body.data)),
                          !.dec = NewDecoder, !.rawBody = <<>>, !.deviceType = "",
                          !.target = "", !.event = NilEvent, !.err = Nil,
                          !.errArg = "", !.peeked = FALSE]
    /\ UNCHANGED <<recv, b, is, brightness, decoded, ret, call, rpc>>

NextWebhook ==
    \/ \E body \in WebhookBodies : Receive(body)
    \/ \E n \in 1 .. (MaxMembers + MaxTail + 5) : PeekRead(n)
    \/ PeekReturn
    \/ \E n \in 1 .. (MaxMembers + MaxTail + 5) : DecodeRead(n)
    \/ DecodeReturn
    \/ ParseAgain

SpecWebhook == InitWebhook /\ [][NextWebhook]_vars

----------------------------------------------------------------------------
(* Properties of the codec, checked under Spec *)

\* The canonical base-10 text of an integer: an optional "-", no leading
\* zeros, and zero written "0".
Canonical(s) ==
    /\ IsIntText(s)
    /\ s # <<"-", "0">>
    /\ LET d == IF s[1] = "-" THEN Tail(s) ELSE s IN Len(d) = 1 \/ d[1] # "0"

IsInteger(v) == v.kind = "number" /\ IsIntText(v.text)

\* C1: decoding a JSON integer n into a DeviceVersion succeeds and leaves the
\* canonical base-10 text of n, which is also what decoding the JSON string
\* holding that text leaves: the wire type cannot be told from the value.
C1_WireTypeNotObservable ==
    (ret.op = "DeviceVersion.UnmarshalJSON" /\ IsInteger(b)) =>
        /\ ret.err = Nil
        /\ Canonical(is)
        /\ ParseInt(is) = ParseInt(b.text)
        /\ DeviceVersion_UnmarshalJSON(<<>>, JSON("string", is)) = [is |-> is, err |-> Nil]

\* A negative integer of several digits has been decoded into a DeviceVersion.
C1_Witness ==
    /\ ret.op = "DeviceVersion.UnmarshalJSON"
    /\ IsInteger(b)
    /\ ParseInt(b.text) < 0 - 9
    /\ is = b.text

\* C2: DeviceVersion.UnmarshalJSON and BrightnessState.UnmarshalJSON return an
\* error for every JSON value that is neither an integer nor a string.
C2_OtherShapesFail ==
    (/\ ret.op \in {"DeviceVersion.UnmarshalJSON", "BrightnessState.UnmarshalJSON"}
     /\ ~IsInteger(b)
     /\ b.kind # "string") => ret.err # Nil

\* C3 as claimed: a fresh BrightnessState decoded from any JSON integer n,
\* negative ones included, returns (n, nil) from Int() and an error from
\* AmbientBrightness().
C3_IntRoundTripAnyInteger ==
    /\ (ret.op = "Int" /\ decoded \in {<<"int">>, <<"negint">>}) =>
            (ret.intVal = ParseInt(b.text) /\ ret.err = Nil)
    /\ (ret.op = "AmbientBrightness" /\ decoded \in {<<"int">>, <<"negint">>}) =>
            ret.err # Nil

\* C3 as amended: for n >= 0 Int() returns (n, nil); for n < 0 it returns
\* (-1, error); AmbientBrightness() returns an error for every n.
C3_IntRoundTripNonNegative ==
    /\ (ret.op = "Int" /\ decoded = <<"int">>) =>
            (ret.intVal = ParseInt(b.text) /\ ret.err = Nil)
    /\ (ret.op = "Int" /\ decoded = <<"negint">>) =>
            (ret.intVal = 0 - 1 /\ ret.err = ErrIntBrightness)
    /\ (ret.op = "AmbientBrightness" /\ decoded \in {<<"int">>, <<"negint">>}) =>
            (ret.strVal = <<>> /\ ret.err = ErrAmbientBrightness)

\* Int() has been called on a fresh BrightnessState decoded from the integer 0.
C3_Witness ==
    /\ ret.op = "Int"
    /\ decoded = <<"int">>
    /\ b.text = <<"0">>
    /\ ret.err = Nil

\* C4 as claimed: a fresh BrightnessState decoded from any JSON string s, the
\* empty one included, returns (s, nil) from AmbientBrightness() and an error
\* from Int().
C4_StringRoundTripAnyString ==
    /\ (ret.op = "AmbientBrightness" /\ decoded \in {<<"string">>, <<"emptystring">>}) =>
            (ret.strVal = b.text /\ ret.err = Nil)
    /\ (ret.op = "Int" /\ decoded \in {<<"string">>, <<"emptystring">>}) =>
            ret.err # Nil

\* C4 as amended: for a non-empty s AmbientBrightness() returns (s, nil); for
\* the empty string it returns ("", error); Int() returns an error for every s.
C4_StringRoundTripNonEmpty ==
    /\ (ret.op = "AmbientBrightness" /\ decoded = <<"string">>) =>
            (ret.strVal = b.text /\ ret.err = Nil)
    /\ (ret.op = "AmbientBrightness" /\ decoded = <<"emptystring">>) =>
            (ret.strVal = <<>> /\ ret.err = ErrAmbientBrightness)
    /\ (ret.op = "Int" /\ decoded \in {<<"string">>, <<"emptystring">>}) =>
            ret.err # Nil

\* AmbientBrightness() has been called on a fresh BrightnessState decoded from
\* a string that is none of the known tokens.
C4_Witness ==
    /\ ret.op = "AmbientBrightness"
    /\ decoded = <<"string">>
    /\ b.text = <<"o", "n">>
    /\ ret.strVal = <<"o", "n">>

\* C5: after one or more successful decodes of integers and strings into the
\* same BrightnessState, exactly the accessor of the last decoded shape
\* succeeds. Stated for non-negative integers and non-empty strings, the
\* values both accessors can return.
C5_ExactlyOneVariant ==
    (/\ decoded # <<>>
     /\ \A i \in 1..Len(decoded) : decoded[i] \in {"int", "string"}) =>
        /\ ret.op = "Int" => (ret.err = Nil <=> decoded[Len(decoded)] = "int")
        /\ ret.op = "AmbientBrightness" =>
                (ret.err = Nil <=> decoded[Len(decoded)] = "string")

\* C6: Int() returns an error on a BrightnessState that no integer was decoded
\* into, such as the Brightness of a DeviceStatus whose body had no
\* "brightness" key.
C6_NoIntWithoutDecode ==
    (/\ ret.op = "Int"
     /\ \A i \in 1..Len(decoded) : decoded[i] \notin {"int", "negint"}) =>
        ret.err # Nil

\* C7: on a fresh BrightnessState decoded once from a string, Int() returns
\* -1 with its error; decoded once from an integer in 1..100,
\* AmbientBrightness() returns "" with its error.
C7_WrongVariantSentinel ==
    /\ (ret.op = "Int" /\ decoded \in {<<"string">>, <<"emptystring">>}) =>
            (ret.intVal = 0 - 1 /\ ret.err = ErrIntBrightness)
    /\ (ret.op = "AmbientBrightness" /\ decoded = <<"int">>
            /\ ParseInt(b.text) \in 1..100) =>
            (ret.strVal = <<>> /\ ret.err = ErrAmbientBrightness)

\* Int() has been called on a fresh BrightnessState decoded from "bright".
C7_Witness ==
    /\ ret.op = "Int"
    /\ decoded = <<"string">>
    /\ b.text = AmbientBrightnessBright
    /\ ret.intVal = 0 - 1

----------------------------------------------------------------------------
(* Properties of the command constructors, checked under SpecCommand *)

\* The components of a text between separators.
RECURSIVE Split(_, _)
Split(s, sep) ==
    IF \A i \in 1..Len(s) : s[i] # sep THEN <<s>>
    ELSE LET k == CHOOSE i \in 1..Len(s) : s[i] = sep /\ \A j \in 1..(i - 1) : s[j] # sep
         IN <<SubSeq(s, 1, k - 1)>> \o Split(SubSeq(s, k + 1, Len(s)), sep)

Clamp(p, lo, hi) == IF p < lo THEN lo ELSE IF p > hi THEN hi ELSE p

\* C8: the third comma-separated component of SetPosition's parameter is the
\* decimal text of clamp(position, 0, 100), in both copies of SetPosition, and
\* no error is returned.
C8_PositionClamped ==
    call.fn \in {"SetPosition", "setPositionCommand.request"} =>
        /\ call.err = Nil
        /\ LET parts == Split(call.cmd.Parameter, ",") IN
            /\ Len(parts) = 3
            /\ Canonical(parts[3])
            /\ ParseInt(parts[3]) = Clamp(call.args.position, 0, 100)

\* SetPosition has rendered a position above 100 as 100.
C8_Witness ==
    /\ call.fn = "SetPosition"
    /\ call.args.position > 100
    /\ call.cmd.Parameter = <<"1", ",", "f", "f", ",", "1", "0", "0">>

\* C9: CreateKeyCommand with a passcode type that needs no validity window
\* succeeds exactly when the password has 6 to 12 characters, also when some
\* of them take several bytes.
C9_PasswordLengthInCharacters ==
    (call.fn = "CreateKeyCommand"
        /\ call.args.typ \in {PermanentPasscode, UrgentPasscode}) =>
        IF Len(call.args.password) \in 6..12
        THEN call.err = Nil /\ call.cmd # Nil
        ELSE call.err # Nil /\ call.cmd = Nil

\* C10: for a password of valid length (6 to 12 as CreateKeyCommand measures
\* it), a timeLimit or disposable passcode fails iff start or end is the zero
\* time, and a permanent or urgent one never fails.
C10_ValidityWindow ==
    (call.fn = "CreateKeyCommand" /\ len(call.args.password) \in 6..12) =>
        /\ call.args.typ \in {TimeLimitPasscode, DisposablePasscode} =>
            (call.err # Nil <=> (call.args.start = ZeroTime \/ call.args.end = ZeroTime))
        /\ call.args.typ \in {PermanentPasscode, UrgentPasscode} => call.err = Nil

\* A timeLimit passcode with a zero end only has been refused.
C10_Witness ==
    /\ call.fn = "CreateKeyCommand"
    /\ len(call.args.password) \in 6..12
    /\ call.args.typ = TimeLimitPasscode
    /\ call.args.start # ZeroTime
    /\ call.args.end = ZeroTime
    /\ call.err = ErrStartEndRequired

----------------------------------------------------------------------------
(* Properties of the services, checked under SpecService *)

\* The status codes the vendor documents besides 100.
VendorErrorCodes == {151, 152, 160, 161, 171, 190}

\* The kind of error the status-code table gives a status code.
KindOfStatusCode(statusCode) ==
    CASE statusCode = 100 -> "none"
      [] statusCode = 151 -> "DeviceTypeMismatch"
      [] statusCode = 152 -> "NotFound"
      [] statusCode = 160 -> "Unsupported"
      [] statusCode = 161 -> "DeviceOffline"
      [] statusCode = 171 -> "HubOffline"
      [] statusCode = 190 -> "Conflict"
      [] OTHER -> "Unknown"

\* The kind of error a returned error is, read off its message.
ErrorKind(err) ==
    CASE err = Nil -> "none"
      [] err = "device type error" -> "DeviceTypeMismatch"
      [] err = "device not found" -> "NotFound"
      [] err = "command is not supported" -> "Unsupported"
      [] err = "device is offline" -> "DeviceOffline"
      [] err = "hub device is offline" -> "HubOffline"
      [] err \in {"device internal error due to device states not synchronizeed with server or command format is invalid",
                  "device internal error due to device states not synchronized with server or too many requests limit reached",
                  "device internal error due to device states not synchronized with server"} -> "Conflict"
      [] err = ErrUnknownFromDeviceList -> "Unknown"
      [] OTHER -> "other"

\* The last call sent its request and was answered with an envelope that
\* Client.do let through and that decoded.
Answered(method) ==
    /\ rpc.method = method
    /\ rpc.sent
    /\ Client_do(rpc.transport).err = Nil
    /\ rpc.transport.body.valid

\* C11: DeviceService.Command returns nil for statusCode 100, and for each of
\* 151, 152, 160, 161, 171 and 190 an error of that code's kind, which it
\* returns for no other of the six codes.
C11_CommandStatusCodes ==
    Answered("DeviceService.Command") =>
        LET statusCode == rpc.transport.body.statusCode IN
        /\ statusCode = 100 => rpc.ret.err = Nil
        /\ statusCode \in VendorErrorCodes =>
            /\ rpc.ret.err # Nil
            /\ ErrorKind(rpc.ret.err) = KindOfStatusCode(statusCode)
            /\ \A other \in VendorErrorCodes \ {statusCode} :
                    deviceCommandResponse_Error(other) # rpc.ret.err

\* A command answered with statusCode 161 has returned "device is offline".
C11_Witness ==
    /\ Answered("DeviceService.Command")
    /\ rpc.transport.body.statusCode = 161
    /\ rpc.ret.err = "device is offline"

\* C12: DeviceService.Command returns nil only for statusCode 100, and for a
\* statusCode that is neither 100 nor one of the six documented codes it
\* returns the unknown-error kind carrying the code.
C12_OnlyHundredSucceeds ==
    Answered("DeviceService.Command") =>
        LET statusCode == rpc.transport.body.statusCode IN
        /\ rpc.ret.err = Nil => statusCode = 100
        /\ statusCode \notin VendorErrorCodes \cup {100} =>
            /\ ErrorKind(rpc.ret.err) = "Unknown"
            /\ rpc.ret.code = statusCode

\* C13: for each statusCode in {151, 152, 160, 161, 171, 190}, a status read
\* answered with that code returns the kind of error a command send answered
\* with that code returns, which is the kind the table gives the code.
C13_StatusSameKindAsCommand ==
    (/\ Answered("DeviceService.Status")
     /\ deviceStatusResponse_Decode(rpc.transport.body).err = Nil
     /\ rpc.transport.body.statusCode \in VendorErrorCodes) =>
        LET statusCode == rpc.transport.body.statusCode
            command == DeviceService_Command(
                Transport(Nil, rpc.transport.status, Envelope(statusCode, <<>>)))
        IN  /\ rpc.ret.err # Nil
            /\ ErrorKind(rpc.ret.err) = ErrorKind(command.err)
            /\ ErrorKind(rpc.ret.err) = KindOfStatusCode(statusCode)

\* C14: DeviceService.List and DeviceService.Status of src/device.go return a
\* nil error iff the transport succeeded, the envelope decoded and its
\* statusCode is 100; they then return exactly the decoded body, and in every
\* other case the zero value with an error.
C14_ListStatusSucceedIffHundred ==
    /\ rpc.method = "DeviceService.List" =>
        LET succeeded == /\ Client_do(rpc.transport).err = Nil
                         /\ rpc.transport.body.valid
                         /\ rpc.transport.body.statusCode = 100
        IN  /\ rpc.ret.err = Nil <=> succeeded
            /\ rpc.ret.val = IF succeeded THEN rpc.transport.body.body ELSE ZeroDevicesBody
    /\ rpc.method = "DeviceService.Status" =>
        LET dec == deviceStatusResponse_Decode(rpc.transport.body)
            succeeded == /\ Client_do(rpc.transport).err = Nil
                         /\ dec.err = Nil
                         /\ rpc.transport.body.statusCode = 100
        IN  /\ rpc.ret.err = Nil <=> succeeded
            /\ rpc.ret.val = IF succeeded THEN dec.response.Body ELSE ZeroDeviceStatus

\* A status read answered with statusCode 100 and a body with brightness 1
\* has returned that body.
C14_Witness ==
    /\ Answered("DeviceService.Status")
    /\ rpc.transport.body.statusCode = 100
    /\ rpc.transport.body.body.brightness = JSON("number", <<"1">>)
    /\ rpc.ret.err = Nil
    /\ rpc.ret.val.Brightness.intBrightness = 1

\* C15: SceneService.List, SceneService.Execute, WebhookService.Setup,
\* WebhookService.Update and WebhookService.Delete return a nil error only if
\* the envelope they were answered with has statusCode 100.
C15_OtherServicesSucceedOnlyOnHundred ==
    \A method \in {"SceneService.List", "SceneService.Execute", "WebhookService.Setup",
                   "WebhookService.Update", "WebhookService.Delete"} :
        (Answered(method) /\ rpc.transport.body.statusCode # 100) => rpc.ret.err # Nil

----------------------------------------------------------------------------
(* Properties of the webhook parser, checked under SpecWebhook *)

\* The event struct TestParseWebhook expects for each device type of the
\* dispatch table.
PairedEvent ==
    [WoPresence |-> "MotionSensorEvent", WoContact |-> "ContactSensorEvent",
     WoLock |-> "LockEvent", WoCamera |-> "IndoorCamEvent",
     WoPanTiltCam |-> "PanTiltCamEvent", WoBulb |-> "ColorBulbEvent",
     WoStrip |-> "StripLightEvent", WoPlugUS |-> "PlugMiniUSEvent",
     WoPlugJP |-> "PlugMiniJPEvent", WoMeter |-> "MeterEvent",
     WoMeterPlus |-> "MeterPlusEvent", WoSweeper |-> "SweeperEvent",
     WoSweeperPlus |-> "SweeperEvent", WoCeiling |-> "CeilingEvent",
     WoCeilingPro |-> "CeilingEvent", WoKeypad |-> "KeypadEvent",
     WoKeypadTouch |-> "KeypadEvent"]

\* ParseWebhookRequest has returned for a body that holds a complete JSON
\* object whose context.deviceType is the string token, and whose eventType,
\* eventVersion and context.timeOfSample have the JSON shape of their fields.
ParsedWellFormed(token) ==
    /\ req.pc = "done"
    /\ Scan(req.original, 1, 0) = "end"
    /\ req.json.context.deviceType = WString(token)
    /\ req.json.eventType.kind # "number"
    /\ req.json.eventVersion.kind # "number"
    /\ req.json.context.timeOfSample.kind # "string"

\* A decoded field holds what the body has under its key: the string or the
\* number there, or the zero value when the body has no such key.
FieldEquals(type, val, v) ==
    CASE v.kind = "absent" -> val = Zero(type)
      [] v.kind = "string" -> val = v.str
      [] v.kind = "number" /\ type = "float64" -> val = <<v.num, v.frac>>
      [] v.kind = "number" -> val = v.num
      [] OTHER -> FALSE

\* C16: for each device type of the dispatch table, ParseWebhookRequest on a
\* well-formed body with that device type returns a nil error and the event
\* struct paired with it, whose eventType, eventVersion and context fields
\* equal those of the body.
C16_DispatchTableDecodes ==
    \A token \in DOMAIN PairedEvent :
        ParsedWellFormed(token) =>
            /\ req.err = Nil
            /\ req.event.type = PairedEvent[token]
            /\ FieldEquals("string", req.event.EventType, req.json.eventType)
            /\ FieldEquals("string", req.event.EventVersion, req.json.eventVersion)
            /\ \A k \in DOMAIN req.event.Context :
                    FieldEquals(EventContext(PairedEvent[token])[k],
                                req.event.Context[k], req.json.context[k])

\* A WoPresence body with every field of a motion sensor, sent with white
\* space after it, has been parsed into a MotionSensorEvent.
C16_Witness ==
    /\ ParsedWellFormed("WoPresence")
    /\ req.json.context.detectionState = WString("on")
    /\ Len(req.original) > 5
    /\ req.event.type = "MotionSensorEvent"
    /\ req.event.Context.detectionState = "on"
    /\ req.event.Context.timeOfSample = 7

\* The device types that share an event struct, each with the other of its
\* pair and with the struct.
Twin ==
    [WoSweeper |-> "WoSweeperPlus", WoSweeperPlus |-> "WoSweeper",
     WoCeiling |-> "WoCeilingPro", WoCeilingPro |-> "WoCeiling",
     WoKeypad |-> "WoKeypadTouch", WoKeypadTouch |-> "WoKeypad"]

SharedEvent ==
    [WoSweeper |-> "SweeperEvent", WoSweeperPlus |-> "SweeperEvent",
     WoCeiling |-> "CeilingEvent", WoCeilingPro |-> "CeilingEvent",
     WoKeypad |-> "KeypadEvent", WoKeypadTouch |-> "KeypadEvent"]

\* C17: a body with one device type of a pair (WoSweeper, WoSweeperPlus),
\* (WoCeiling, WoCeilingPro), (WoKeypad, WoKeypadTouch) and the body that
\* differs from it only by carrying the other one decode to the same event
\* struct and to records equal in every field but Context.DeviceType, which
\* is the device type that was on the wire.
C17_ManyToOne ==
    \A token \in DOMAIN Twin :
        ParsedWellFormed(token) =>
            LET twinBody == [req.json EXCEPT !.context.deviceType = WString(Twin[token])]
                twin == Event_Decode(SharedEvent[token], twinBody)
            IN  /\ req.err = Nil
                /\ req.event.type = SharedEvent[token]
                /\ EventOfDeviceType(Twin[token]) = SharedEvent[token]
                /\ twin.err = Nil
                /\ req.event.Context.deviceType = token
                /\ twin.event.Context.deviceType = Twin[token]
                /\ [req.event EXCEPT !.Context.deviceType = Twin[token]] = twin.event

\* A WoSweeperPlus body with every field of a cleaner has been parsed into a
\* SweeperEvent that kept the device type.
C17_Witness ==
    /\ ParsedWellFormed("WoSweeperPlus")
    /\ req.json.context.battery = WNumber(7)
    /\ req.event.type = "SweeperEvent"
    /\ req.event.Context.battery = 7
    /\ req.event.Context.deviceType = "WoSweeperPlus"

\* ParseWebhookRequest has returned for a body that holds a complete JSON
\* object whose context.deviceType is missing, null, or a string that is not
\* exactly a device type of the dispatch table.
ParsedUnknownToken ==
    /\ req.pc = "done"
    /\ Scan(req.original, 1, 0) = "end"
    /\ \/ req.json.context.deviceType.kind \in {"absent", "null"}
       \/ /\ req.json.context.deviceType.kind = "string"
          /\ req.json.context.deviceType.str \notin DOMAIN PairedEvent

TestedEvent ==
    [WoHand |-> "BotEvent", WoCurtain |-> "CurtainEvent", WoCurtain3 |-> "Curtain3Event",
     WoIOSensor |-> "OutdoorMeterEvent", WoHub2 |-> "Hub2Event"]

\* C19: ParseWebhookRequest on a well-formed body whose device type is WoHand,
\* WoCurtain, WoCurtain3, WoIOSensor or WoHub2 returns a nil error and a
\* BotEvent, CurtainEvent, Curtain3Event, OutdoorMeterEvent or Hub2Event.
C19_TestedTokensAccepted ==
    \A token \in DOMAIN TestedEvent :
        ParsedWellFormed(token) =>
            /\ req.err = Nil
            /\ req.event.type = TestedEvent[token]

\* The length of the first JSON value of a body that has one, leading white
\* space included.
FirstValueLen(bytes) ==
    CHOOSE n \in 1 .. Len(bytes) :
        /\ Scan(SubSeq(bytes, 1, n), 1, 0) = "end"
        /\ \A m \in 1 .. (n - 1) : Scan(SubSeq(bytes, 1, m), 1, 0) # "end"

\* deviceTypeFromWebhookRequest has returned without error in this call of
\* ParseWebhookRequest: r.Body is the buffer it filled.
PeekSucceeded ==
    req.pc \in {"decode", "done"} /\ req.peeked /\ req.Body.reader = "buffer"

\* C20 as stated: whenever deviceTypeFromWebhookRequest returns successfully,
\* the replaced r.Body holds exactly the bytes of the original body, however
\* the reader split it.
C20_ReplayIsWholeBody ==
    PeekSucceeded => req.Body.data = req.original

\* C20: whenever deviceTypeFromWebhookRequest returns successfully, the
\* replaced r.Body holds the bytes the decoder read: a prefix of the original
\* body that contains its whole first JSON value, and the whole body when the
\* body ends with that value.
C20_ReplayIsPrefixWithValue ==
    PeekSucceeded =>
        /\ Len(req.Body.data) <= Len(req.original)
        /\ req.Body.data = SubSeq(req.original, 1, Len(req.Body.data))
        /\ Len(req.Body.data) >= FirstValueLen(req.original)
        /\ Len(req.original) = FirstValueLen(req.original) => req.Body.data = req.original

\* The peek has returned for a body with white space after its value that
\* arrived in a later read: the replaced r.Body, not yet read, is shorter
\* than the body.
C20_Witness ==
    /\ PeekSucceeded
    /\ req.pc = "decode"
    /\ req.Body.off = 0
    /\ Len(req.original) > FirstValueLen(req.original)
    /\ Len(req.Body.data) < Len(req.original)

----------------------------------------------------------------------------
(* Properties of the client operations, checked under SpecService *)

C22_StatusIgnoresDeviceType ==
    (/\ Answered("DeviceService.Status")
     /\ rpc.transport.body.statusCode = 100
     /\ rpc.transport.body.body.deviceType.kind = "string"
     /\ deviceStatusResponse_Decode(
            [rpc.transport.body EXCEPT !.body.deviceType = Absent]).err = Nil) =>
        /\ rpc.ret.err = Nil
        /\ rpc.ret.val.Type = rpc.transport.body.body.deviceType.text
        /\ \A other \in {<<"B", "o", "t">>, <<"X", "1">>, <<"H", "u", "b">>} :
            LET twin == DeviceService_Status(
                    [rpc.transport EXCEPT !.body.body.deviceType = JSON("string", other)])
            IN  /\ twin.err = Nil
                /\ twin.val.Type = other
                /\ [twin.val EXCEPT !.Type = rpc.ret.val.Type] = rpc.ret.val

\* A status body with a deviceType that is no PhysicalDeviceType constant and
\* with brightness 1 has been decoded.
C22_Witness ==
    /\ Answered("DeviceService.Status")
    /\ rpc.transport.body.statusCode = 100
    /\ rpc.transport.body.body.deviceType = JSON("string", <<"X", "1">>)
    /\ rpc.transport.body.body.brightness = JSON("number", <<"1">>)
    /\ rpc.ret.err = Nil
    /\ rpc.ret.val.Type = <<"X", "1">>
    /\ rpc.ret.val.Brightness.intBrightness = 1

----------------------------------------------------------------------------
(* Properties of every constructor, checked under SpecCommand *)

\* C23: every Command that a constructor of device.go returns renders
\* through Request() to an envelope whose CommandType is "command" or
\* "customize" and whose Parameter is not empty; only ButtonPushCommand
\* gives "customize"; Request() gives the same envelope on every call.
C23_ThreeFieldEnvelope ==
    (call # NoCall /\ call.fn # "setPositionCommand.request" /\ call.err = Nil) =>
        LET request == DeviceCommandRequest_Request(call.cmd) IN
        /\ request.CommandType \in {"command", "customize"}
        /\ IF call.fn = "CreateKeyCommand"
           THEN DOMAIN request.Parameter # {}
           ELSE request.Parameter # <<>>
        /\ (request.CommandType = "customize") <=> (call.fn = "ButtonPushCommand")
        /\ DeviceCommandRequest_Request(call.cmd) = request
        /\ "requests" \in DOMAIN call =>
                call.requests = <<request, request>>

\* ButtonPushCommand("") has been called: the command name is empty, the
\* parameter and the command type are not.
C23_Witness ==
    /\ call # NoCall
    /\ call.fn = "ButtonPushCommand"
    /\ call.args.s = <<>>
    /\ call.cmd = DeviceCommandRequest(<<>>, <<"d", "e", "f", "a", "u", "l", "t">>, "customize")
    /\ call.requests[2] = call.cmd

\* C24: in both DeviceService.Command, of device.go and of the /v1.0
\* client, a POST that fails, by a network error or by an HTTP status that
\* Client.do turns into an error, makes Command return that error.
C24_CommandReturnsTransportError ==
    (rpc.method \in {"DeviceService.Command", "DeviceService.Command/v1.0"}
        /\ Client_do(rpc.transport).err # Nil) =>
            rpc.ret.err = Client_do(rpc.transport).err

\* C25, as stated: WebhookService.Setup sends a request iff deviceList is
\* "ALL"; for any other deviceList it returns an error and sends nothing, and
\* for "ALL" it sends one POST whose JSON body is
\* {action: "setupWebhook", url: <url>, deviceList: "ALL"}.
C25_SetupBodyHasUrl ==
    rpc.method = "WebhookService.Setup" =>
        LET url == rpc.deviceList[1]
            deviceList == rpc.deviceList[2]
        IN
        /\ (rpc.requests # <<>>) <=> (deviceList = "ALL")
        /\ deviceList # "ALL" => rpc.ret.err = ErrDeviceListAll
        /\ deviceList = "ALL" =>
            /\ Len(rpc.requests) = 1
            /\ rpc.requests[1].verb = "POST"
            /\ rpc.requests[1].path = "/v1.1/webhook/setupWebhook"
            /\ rpc.requests[1].body =
                    [action |-> "setupWebhook", url |-> url, deviceList |-> "ALL"]

\* C25, amended: the same, but the JSON body has the member url only for a
\* url that is not empty; for the empty url it is
\* {action: "setupWebhook", deviceList: "ALL"}.
C25_SetupSendsIffAll ==
    rpc.method = "WebhookService.Setup" =>
        LET url == rpc.deviceList[1]
            deviceList == rpc.deviceList[2]
        IN
        /\ (rpc.requests # <<>>) <=> (deviceList = "ALL")
        /\ rpc.sent <=> (deviceList = "ALL")
        /\ deviceList # "ALL" => rpc.ret.err = ErrDeviceListAll
        /\ deviceList = "ALL" =>
            /\ Len(rpc.requests) = 1
            /\ rpc.requests[1].verb = "POST"
            /\ rpc.requests[1].path = "/v1.1/webhook/setupWebhook"
            /\ LET body == rpc.requests[1].body IN
                /\ DOMAIN body = {"action", "deviceList"} \cup (IF url = "" THEN {} ELSE {"url"})
                /\ body.action = "setupWebhook"
                /\ body.deviceList = "ALL"
                /\ url # "" => body.url = url

\* Setup("", "ALL") has sent its one POST, whose body has no member url.
C25_Witness ==
    /\ rpc.method = "WebhookService.Setup"
    /\ rpc.deviceList = <<"", "ALL">>
    /\ Len(rpc.requests) = 1
    /\ rpc.requests[1].verb = "POST"
    /\ "url" \notin DOMAIN rpc.requests[1].body
    /\ rpc.ret.err = Nil

\* C26: the parameter of SetPosition(index, mode, position) is exactly
\* "<index>,<m>,<clamped position>": <index> the decimal text of index,
\* whatever it is, <m> "1" for PerformanceMode, "2" for SilentMode and "ff"
\* for DefaultMode and every other mode; the command is "setPosition" and
\* its type "command".
C26_SetPositionParameter ==
    call.fn = "SetPosition" =>
        LET request == DeviceCommandRequest_Request(call.cmd)
            parts == Split(request.Parameter, ",")
            m == CASE call.args.mode = PerformanceMode -> <<"1">>
                   [] call.args.mode = SilentMode -> <<"2">>
                   [] OTHER -> <<"f", "f">>
        IN
        /\ request.Command = "setPosition"
        /\ request.CommandType = "command"
        /\ Len(parts) = 3
        /\ Canonical(parts[1]) /\ ParseInt(parts[1]) = call.args.index
        /\ parts[2] = m
        /\ Canonical(parts[3]) /\ ParseInt(parts[3]) = Clamp(call.args.position, 0, 100)
        /\ request.Parameter = parts[1] \o <<",">> \o parts[2] \o <<",">> \o parts[3]

\* SetPosition has rendered a negative index and a mode below DefaultMode.
C26_Witness ==
    /\ call.fn = "SetPosition"
    /\ call.args.index < 0
    /\ call.args.mode < DefaultMode
    /\ call.cmd.Parameter = <<"-", "1", ",", "f", "f", ",", "5", "0">>

----------------------------------------------------------------------------
(* Properties of Client.do, checked under SpecService *)

\* C27: for a response with HTTP status 400, 401, 403, 406, 415, 422, 429
\* or 500, Client.do returns no response and an error, and the method that
\* called it returns that error whatever the body holds; for every other
\* HTTP status Client.do returns the response and no error, and the method
\* returns what it returns for the same body under status 200.
C27_HTTPStatusDecidesOutcome ==
    (rpc # NoRPC /\ rpc.sent /\ rpc.transport.err = Nil) =>
        LET t == rpc.transport
            got == Client_do(t)
            Method(u) ==
                CASE rpc.method = "DeviceService.List" -> DeviceService_List(u)
                  [] rpc.method = "DeviceService.Status" -> DeviceService_Status(u)
                  [] rpc.method = "DeviceService.Command" -> DeviceService_Command(u)
                  [] rpc.method = "DeviceService.Command/v1.0" -> DeviceService_Command_v10(u)
                  [] rpc.method = "SceneService.List" -> SceneService_List(u)
                  [] rpc.method = "SceneService.Execute" -> SceneService_Execute(u)
                  [] rpc.method = "WebhookService.Setup" ->
                        WebhookService_Setup(rpc.deviceList[2], u)
                  [] rpc.method = "WebhookService.Query" ->
                        WebhookService_Query(rpc.deviceList[1], rpc.deviceList[2], u)
                  [] rpc.method = "WebhookService.QueryUrl" -> WebhookService_QueryUrl(u)
                  [] rpc.method = "WebhookService.QueryDetails" -> WebhookService_QueryDetails(u)
                  [] rpc.method = "WebhookService.Update" -> WebhookService_Update(u)
                  [] rpc.method = "WebhookService.Delete" -> WebhookService_Delete(u)
        IN
        IF t.status \in {400, 401, 403, 406, 415, 422, 429, 500}
        THEN /\ got.err # Nil
             /\ ~got.resp.valid
             /\ rpc.ret.err = got.err
             /\ rpc.ret.err # ErrDecodingJSON
        ELSE /\ got.err = Nil
             /\ got.resp = t.body
             /\ rpc.ret = Method([t EXCEPT !.status = 200])

\* C28: when a method returns, on success or on error, the body of every
\* response that c.httpClient.Do delivered during the call has been drained
\* and closed.
C28_ResponseBodyClosed ==
    rpc # NoRPC => rpc.body # "open"

\* C29: ParseWebhookRequest returns exactly one of an event and an error.
\* An error comes with the nil event: for a body that is not a complete
\* JSON value, for a field of the wrong JSON shape in the peek or in the
\* full decode, and for an unknown device type. No error comes with an
\* event whose every field holds what the body has under its key.
C29_EventXorError ==
    req.pc = "done" =>
        LET complete == Scan(req.original, 1, 0) = "end"
            peek == deviceTypeBody_Decode(req.json)
            shaped == /\ req.json.eventType.kind # "number"
                      /\ req.json.eventVersion.kind # "number"
                      /\ req.json.context.timeOfSample.kind # "string"
        IN
        /\ (req.err # Nil) <=> (req.event = NilEvent)
        /\ ~complete => req.err # Nil
        /\ (complete /\ peek.err # Nil) => req.err = ErrUnmarshalTypeError
        /\ (complete /\ peek.err = Nil /\ EventOfDeviceType(peek.deviceType) = "") =>
                req.err = ErrUnknownDeviceType
        /\ (complete /\ peek.err = Nil /\ EventOfDeviceType(peek.deviceType) # "" /\ ~shaped) =>
                req.err = ErrUnmarshalTypeError
        /\ req.err = Nil =>
            /\ complete
            /\ shaped
            /\ req.event.type = EventOfDeviceType(req.json.context.deviceType.str)
            /\ FieldEquals("string", req.event.EventType, req.json.eventType)
            /\ FieldEquals("string", req.event.EventVersion, req.json.eventVersion)
            /\ DOMAIN req.event.Context = DOMAIN EventContext(req.event.type)
            /\ \A k \in DOMAIN req.event.Context :
                    FieldEquals(EventContext(req.event.type)[k],
                                req.event.Context[k], req.json.context[k])

\* A WoLock body whose timeOfSample is a string has passed the peek and
\* failed in the full decode: the error is returned with the nil event.
C29_Witness ==
    /\ req.pc = "done"
    /\ req.json.context.deviceType = WString("WoLock")
    /\ req.json.context.timeOfSample = WString("now")
    /\ req.target = "LockEvent"
    /\ req.err = ErrUnmarshalTypeError
    /\ req.event = NilEvent

\* C30, as stated: after a successful ParseWebhookRequest(r), r.Body is
\* exhausted, and a second ParseWebhookRequest(r) returns the nil event and
\* an error.
C30_SecondCallFindsBodyExhausted ==
    (req.pc = "done" /\ req.calls = 2 /\ req.first.err = Nil) =>
        /\ req.original = <<>>
        /\ req.event = NilEvent
        /\ req.err # Nil

\* C30, amended: after a successful ParseWebhookRequest(r), r.Body holds no
\* JSON value any more, only the white space after the value that the
\* decoder of the first call has not read, if any; a second
\* ParseWebhookRequest(r) returns the nil event and the error EOF, not the
\* event of the first call.
C30_SecondCallFails ==
    (req.pc = "done" /\ req.calls = 2 /\ req.first.err = Nil) =>
        /\ \A i \in 1 .. Len(req.original) : req.original[i] = " "
        /\ req.first.event # NilEvent
        /\ req.event = NilEvent
        /\ req.event # req.first.event
        /\ req.err = ErrEOF

\* A WoLock body has been parsed into a LockEvent and parsed again: the
\* second call has found one byte of white space and returned EOF.
C30_Witness ==
    /\ req.pc = "done"
    /\ req.calls = 2
    /\ req.first.err = Nil
    /\ req.first.event.type = "LockEvent"
    /\ req.original = <<" ">>
    /\ req.Body.off = Len(req.Body.data)
    /\ req.event = NilEvent
    /\ req.err = ErrEOF

====
